---- MODULE Spec2Model ----
(***************************************************************************)
(* A model of the Splunk Slack bot: the AdminManager authorization policy, *)
(* the .env configuration store, the StructuredLogger audit trail and the  *)
(* command handlers of app.py that use them.                               *)
(*                                                                         *)
(* Strings are sequences of tokens.  A token is one character ("U", " ",   *)
(* "'", ",", "=", "\n") or an atomic word that the code only ever compares *)
(* as a whole (a configuration key such as "ADMIN_USER_IDS", a flag value  *)
(* such as "true").                                                        *)
(***************************************************************************)
EXTENDS Integers, Sequences, FiniteSets, TLC

VARIABLES
    environ,            \* os.environ, restricted to the keys AdminManager reads
    env_file,           \* the .env file: [exists, lines], each line a string
    admin_user_ids,     \* admin_manager.admin_user_ids
    admin_channel_ids,  \* admin_manager.admin_channel_ids
    spl_query_enabled,  \* admin_manager.spl_query_enabled
    approval_required,  \* admin_manager.approval_required
    logs,               \* audit_log.logs (StructuredLogger, in memory)
    log_file,           \* bot_audit.log (StructuredLogger, durable store)
    handled,            \* the number of commands handled so far
    export_files,       \* logs_export.json / .csv / .txt, by format
    wait,               \* the wait_for_job call in progress (SplunkClient)
    setup_states,       \* setup_states: the wizard's record of each user it was started for
    threads,            \* the listener threads that handle two commands at the same time
    inv                 \* the last completed call or command invocation

vars == <<environ, env_file, admin_user_ids, admin_channel_ids,
          spl_query_enabled, approval_required, logs, log_file, handled,
          export_files, wait, setup_states, threads, inv>>

(***************************************************************************)
(* Bounds of the model.                                                    *)
(***************************************************************************)
MaxIdLen == 3
MaxEnvLen == 3
MaxFileLines == 2
MaxCommands == 2

(***************************************************************************)
(* Strings.                                                                *)
(***************************************************************************)
\* str.strip() with no argument strips whitespace
Whitespace == {" ", "\t", "\n"}
\* the argument of .strip("'\"")
QuoteChars == {"'", "\""}

\* all strings over alphabet cs of length at most n
StrUpTo(cs, n) == UNION {[1..k -> cs] : k \in 0..n}

RECURSIVE lstrip(_, _)
lstrip(s, cs) ==
    IF s # <<>> /\ Head(s) \in cs THEN lstrip(Tail(s), cs) ELSE s

RECURSIVE rstrip(_, _)
rstrip(s, cs) ==
    IF s # <<>> /\ s[Len(s)] \in cs THEN rstrip(SubSeq(s, 1, Len(s) - 1), cs) ELSE s

\* str.strip(chars): leading and trailing characters of cs removed
strip(s, cs) == rstrip(lstrip(s, cs), cs)

\* uid.strip().strip("'\""): whitespace first, then quotes, once each
strip_quotes(s) == strip(strip(s, Whitespace), QuoteChars)

\* str.split(sep) for a one-character separator: "" splits to [""]
RECURSIVE split(_, _)
split(s, sep) ==
    IF \E i \in 1..Len(s) : s[i] = sep
    THEN LET i == CHOOSE j \in 1..Len(s) : s[j] = sep /\ \A k \in 1..(j - 1) : s[k] # sep
         IN  <<SubSeq(s, 1, i - 1)>> \o split(SubSeq(s, i + 1, Len(s)), sep)
    ELSE <<s>>

\* sep.join(list)
RECURSIVE join(_, _)
join(list, sep) ==
    IF list = <<>> THEN <<>>
    ELSE IF Len(list) = 1 THEN list[1]
    ELSE list[1] \o <<sep>> \o join(Tail(list), sep)

\* str.lower(), token by token
LowerTok(c) ==
    CASE c = "U" -> "u"
      [] c = "True" -> "true"
      [] c = "TRUE" -> "true"
      [] c = "False" -> "false"
      [] OTHER -> c
lower(s) == [i \in 1..Len(s) |-> LowerTok(s[i])]

\* list membership (x in list), list.remove(x) (the first occurrence only)
In(x, list) == \E i \in 1..Len(list) : list[i] = x
ListRemove(list, x) ==
    LET i == CHOOSE j \in 1..Len(list) : list[j] = x /\ \A k \in 1..(j - 1) : list[k] # x
    IN  SubSeq(list, 1, i - 1) \o SubSeq(list, i + 1, Len(list))
ToSet(list) == {list[i] : i \in 1..Len(list)}

(***************************************************************************)
(* os.environ and AdminManager.                                            *)
(***************************************************************************)
\* an unset environment variable (no value of the model equals it)
Unset == <<"<unset>">>
\* the .env file when os.path.exists(ENV_FILE_PATH) is false
NoFile == [exists |-> FALSE, lines |-> <<>>]
K_ADMINS == "ADMIN_USER_IDS"
K_CHANNELS == "ADMIN_CHANNEL_IDS"
K_SPL == "ENABLE_SPL_QUERY"
K_APPROVAL == "REQUIRE_SPL_APPROVAL"
K_LIMIT == "RESULT_LIMIT"
EnvKeys == {K_ADMINS, K_CHANNELS, K_SPL, K_APPROVAL, K_LIMIT}

\* os.getenv(key, default)
getenv(env, key, default) == IF env[key] = Unset THEN default ELSE env[key]

\* [x.strip().strip("'\"") for x in s.split(",") if x.strip().strip("'\"")]
parse_id_list(s) ==
    LET parts == split(s, ",")
        cleaned == [i \in 1..Len(parts) |-> strip_quotes(parts[i])]
    IN  SelectSeq(cleaned, LAMBDA x : x # <<>>)

\* os.getenv(key, default).lower() == "true"
parse_flag(env, key, default) == lower(getenv(env, key, default)) = <<"true">>

\* AdminManager.__init__: the four fields, read from the environment
AdminManager(env) ==
    [admin_user_ids    |-> parse_id_list(getenv(env, K_ADMINS, <<>>)),
     admin_channel_ids |-> parse_id_list(getenv(env, K_CHANNELS, <<>>)),
     spl_query_enabled |-> parse_flag(env, K_SPL, <<"true">>),
     approval_required |-> parse_flag(env, K_APPROVAL, <<"false">>)]

\* AdminManager.is_admin with the admin check left case-insensitive
is_admin_nocase(roster, user_id) ==
    In(lower(strip_quotes(user_id)), [i \in 1..Len(roster) |-> lower(roster[i])])

\* is_admin that takes every user for an admin
is_admin_anyone(roster, user_id) == TRUE

\* AdminManager.is_admin
is_admin(roster, user_id) == In(strip_quotes(user_id), roster)

\* AdminManager.is_admin_channel
is_admin_channel(channels, channel_id) == In(channel_id, channels)

R_DISABLED == "SPL query execution is currently disabled"
R_RESTRICTED == "SPL queries are restricted to admins only"
R_GRANTED == "Admin access granted"

\* can_execute_spl that also refuses outside the channel C1
can_execute_spl_in_channel(roster, enabled, user_id, channel_id) ==
    IF ~enabled THEN <<FALSE, R_DISABLED>>
    ELSE IF ~is_admin(roster, user_id) \/ channel_id # <<"C", "1">>
    THEN <<FALSE, R_RESTRICTED>>
    ELSE <<TRUE, R_GRANTED>>

\* can_execute_spl with the two checks in the other order
can_execute_spl_swapped(roster, enabled, user_id, channel_id) ==
    IF ~is_admin(roster, user_id) THEN <<FALSE, R_RESTRICTED>>
    ELSE IF ~enabled THEN <<FALSE, R_DISABLED>>
    ELSE <<TRUE, R_GRANTED>>

\* AdminManager.can_execute_spl: (is_allowed, reason)
can_execute_spl(roster, enabled, user_id, channel_id) ==
    IF ~enabled THEN <<FALSE, R_DISABLED>>
    ELSE IF ~is_admin(roster, user_id) THEN <<FALSE, R_RESTRICTED>>
    ELSE <<TRUE, R_GRANTED>>

\* add_admin that puts the user in the place of the roster
add_admin_replacing(roster, user_id) == <<user_id>>

\* AdminManager.add_admin: the roster afterwards
add_admin(roster, user_id) ==
    IF ~In(user_id, roster) THEN Append(roster, user_id) ELSE roster

\* remove_admin that takes out every occurrence of the user
remove_admin_everywhere(roster, user_id) ==
    SelectSeq(roster, LAMBDA x : x # user_id)

\* AdminManager.remove_admin: the roster afterwards
remove_admin(roster, user_id) ==
    IF In(user_id, roster) THEN ListRemove(roster, user_id) ELSE roster

(***************************************************************************)
(* The .env file, update_env_file and load_dotenv.                         *)
(* A line is a string that ends with "\n", except perhaps the last line of *)
(* the file.  A line that sets a key is <<key, "=", value..., "\n">>.      *)
(***************************************************************************)
\* f.writelines(lines): the file's text is the lines one after the other
RECURSIVE writelines(_)
writelines(lines) == IF lines = <<>> THEN <<>> ELSE Head(lines) \o writelines(Tail(lines))

\* f.readlines(): the text cut after every "\n"
RECURSIVE readlines(_)
readlines(text) ==
    IF text = <<>> THEN <<>>
    ELSE IF \E i \in 1..Len(text) : text[i] = "\n"
    THEN LET i == CHOOSE j \in 1..Len(text) :
                      text[j] = "\n" /\ \A k \in 1..(j - 1) : text[k] # "\n"
         IN  <<SubSeq(text, 1, i)>> \o readlines(SubSeq(text, i + 1, Len(text)))
    ELSE <<text>>

\* f"{key}={value}\n"
env_line(key, value) == <<key, "=">> \o value \o <<"\n">>

\* line.startswith(f"{key}=")
starts_with_key(line, key) == Len(line) >= 2 /\ line[1] = key /\ line[2] = "="

\* the loop of update_env_file: the first line of the key rewritten, or a line appended
updated_lines(lines, key, value) ==
    IF \E i \in 1..Len(lines) : starts_with_key(lines[i], key)
    THEN LET i == CHOOSE j \in 1..Len(lines) :
                      /\ starts_with_key(lines[j], key)
                      /\ \A k \in 1..(j - 1) : ~starts_with_key(lines[k], key)
         IN  [lines EXCEPT ![i] = env_line(key, value)]
    ELSE Append(lines, env_line(key, value))

\* python-dotenv's reading of one value: whitespace around it dropped, and
\* one pair of enclosing quotes
dotenv_value(raw) ==
    LET v == strip(raw, Whitespace)
    IN  IF Len(v) >= 2 /\ v[1] \in QuoteChars /\ v[Len(v)] = v[1]
        THEN SubSeq(v, 2, Len(v) - 1)
        ELSE v

\* python-dotenv's reading of the file: the value the file gives to key (the
\* last line that sets it wins), or Unset
dotenv_get(file, key) ==
    LET hits == {i \in 1..Len(file.lines) : starts_with_key(file.lines[i], key)}
    IN  IF ~file.exists \/ hits = {} THEN Unset
        ELSE LET i == CHOOSE j \in hits : \A k \in hits : k <= j
             IN  dotenv_value(SubSeq(file.lines[i], 3, Len(file.lines[i])))

\* load_dotenv(): a key the environment already has keeps its value;
\* load_dotenv(override=True): the file's value wins
load_dotenv(env, file, override) ==
    [k \in EnvKeys |->
        IF dotenv_get(file, k) = Unset THEN env[k]
        ELSE IF ~override /\ env[k] # Unset THEN env[k]
        ELSE dotenv_get(file, k)]

\* What the file system does to a rewrite of .env: it succeeds, it fails
\* before the file is touched (reading it, or opening it for writing), or it
\* fails after open(path, 'w') has truncated the file.
IoOutcomes == {"ok", "fail_before", "fail_truncated"}

\* update_env_file(key, value): [ok, file, env] afterwards
update_env_file(env, file, key, value, io) ==
    LET env_lines == IF file.exists THEN file.lines ELSE <<>>
        written == [exists |-> TRUE,
                    lines |-> readlines(writelines(updated_lines(env_lines, key, value)))]
    IN  CASE io = "ok" ->
               [ok |-> TRUE, file |-> written, env |-> load_dotenv(env, written, TRUE)]
          [] io = "fail_before" ->
               [ok |-> FALSE, file |-> file, env |-> env]
          [] OTHER ->
               [ok |-> FALSE, file |-> [exists |-> TRUE, lines |-> <<>>], env |-> env]

(***************************************************************************)
(* The record of the last call or command invocation.                      *)
(***************************************************************************)
NoInv ==
    [op |-> "init", prev |-> "", user |-> <<>>, channel |-> <<>>, target |-> <<>>,
     before |-> <<>>, ret |-> <<>>, steps |-> <<>>, pre |-> <<>>, write |-> ""]

\* no export file has been written; no wait_for_job call has been made
\* the two listener threads, before either has a command
Tids == {"t1", "t2"}
NoThreads ==
    [t \in Tids |-> [pc |-> "idle", op |-> "", user |-> <<>>, target |-> <<>>,
                     value |-> <<>>, alone |-> TRUE, said |-> ""]]

NoExports == [fmt \in {"json", "csv", "txt"} |-> [exists |-> FALSE]]
NoWait == [pc |-> "idle"]

(***************************************************************************)
(* SpecPolicy: the AdminManager object on its own.  A manager is built     *)
(* from an environment, then one of its methods is called; after add_admin *)
(* or remove_admin the same call is repeated or is_admin is asked about    *)
(* the same user.                                                          *)
(***************************************************************************)
EnvChars == {"U", ",", "'", " "}
IdChars == {"U", "u", "'", " "}
EnvStrings == StrUpTo(EnvChars, MaxEnvLen)
UserIdStrings == StrUpTo(IdChars, MaxIdLen)
ChannelIds == {<<"C">>, <<"D">>}

PolicyInit ==
    /\ \E ids \in EnvStrings, spl \in {Unset, <<"True">>, <<"false">>} :
          environ = [k \in EnvKeys |->
                        CASE k = K_ADMINS -> ids
                          [] k = K_SPL -> spl
                          [] OTHER -> Unset]
    /\ env_file = NoFile
    /\ admin_user_ids = AdminManager(environ).admin_user_ids
    /\ admin_channel_ids = AdminManager(environ).admin_channel_ids
    /\ spl_query_enabled = AdminManager(environ).spl_query_enabled
    /\ approval_required = AdminManager(environ).approval_required
    /\ logs = <<>>
    /\ log_file = <<>>
    /\ handled = 0
    /\ export_files = NoExports
    /\ wait = NoWait
    /\ setup_states = {}
    /\ threads = NoThreads
    /\ inv = NoInv

PolicyFrame == UNCHANGED <<environ, env_file, admin_channel_ids, spl_query_enabled,
                           approval_required, logs, log_file, handled,
                           export_files, wait, setup_states, threads>>

Call_is_admin ==
    /\ inv.op \in {"init", "add_admin", "remove_admin"}
    /\ \E u \in UserIdStrings :
          /\ inv.op # "init" => (inv.prev = "init" /\ u = inv.user)
          /\ inv' = [NoInv EXCEPT !.op = "is_admin", !.prev = inv.op, !.user = u,
                                  !.before = admin_user_ids,
                                  !.ret = is_admin(admin_user_ids, u)]
    /\ UNCHANGED admin_user_ids
    /\ PolicyFrame

Call_can_execute_spl ==
    /\ inv.op = "init"
    /\ \E u \in UserIdStrings, c \in ChannelIds :
          inv' = [NoInv EXCEPT !.op = "can_execute_spl", !.prev = inv.op, !.user = u,
                               !.channel = c, !.before = admin_user_ids,
                               !.ret = can_execute_spl(admin_user_ids, spl_query_enabled, u, c)]
    /\ UNCHANGED admin_user_ids
    /\ PolicyFrame

Call_add_admin ==
    /\ inv.op \in {"init", "add_admin"}
    /\ \E u \in UserIdStrings :
          /\ inv.op # "init" => (inv.prev = "init" /\ u = inv.user)
          /\ admin_user_ids' = add_admin(admin_user_ids, u)
          /\ inv' = [NoInv EXCEPT !.op = "add_admin", !.prev = inv.op, !.user = u,
                                  !.before = admin_user_ids]
    /\ PolicyFrame

Call_remove_admin ==
    /\ inv.op \in {"init", "remove_admin"}
    /\ \E u \in UserIdStrings :
          /\ inv.op # "init" => (inv.prev = "init" /\ u = inv.user)
          /\ admin_user_ids' = remove_admin(admin_user_ids, u)
          /\ inv' = [NoInv EXCEPT !.op = "remove_admin", !.prev = inv.op, !.user = u,
                                  !.before = admin_user_ids]
    /\ PolicyFrame

PolicyNext ==
    \/ Call_is_admin
    \/ Call_can_execute_spl
    \/ Call_add_admin
    \/ Call_remove_admin

SpecPolicy == PolicyInit /\ [][PolicyNext]_vars

(***************************************************************************)
(* SpecEnv: the configuration store on its own.  The process starts with   *)
(* some environment and some .env file (app.py loads the file without      *)
(* override), then update_env_file and reload_admin_manager are called, at  *)
(* most MaxCommands updates in a run.                                      *)
(***************************************************************************)
U1 == <<"U", "1">>
U2 == <<"U", "2">>
U3 == <<"U", "3">>

\* the lines a .env file starts with
InitLines ==
    {env_line(K_ADMINS, U1),
     env_line(K_ADMINS, <<"'">> \o U1 \o <<",">> \o U2 \o <<"'">>),
     env_line(K_LIMIT, <<"5">>),
     env_line(K_SPL, <<"false">>)}

\* a file of at most MaxFileLines such lines, with or without the last newline
InitFiles ==
    {NoFile} \cup
    {[exists |-> TRUE, lines |-> ls] :
        ls \in UNION {[1..n -> InitLines] : n \in 0..MaxFileLines}} \cup
    {[exists |-> TRUE,
      lines |-> [ls EXCEPT ![Len(ls)] = SubSeq(ls[Len(ls)], 1, Len(ls[Len(ls)]) - 1)]] :
        ls \in UNION {[1..n -> InitLines] : n \in 1..MaxFileLines}}

\* the environment the process is started with
InitProcEnvs ==
    {[k \in EnvKeys |-> IF k = K_ADMINS THEN ids ELSE Unset] : ids \in {Unset, U2}}

\* the rosters update_env_file is given, joined
Rosters == {<<>>, <<U1>>, <<U2>>, <<U1, U2>>, <<U2, U1>>}
UpdateValues(key) ==
    CASE key = K_ADMINS -> {join(r, ",") : r \in Rosters}
      [] key = K_SPL -> {<<"true">>, <<"false">>}
      [] OTHER -> {<<"5">>, <<"7">>}

\* the module-level start of app.py: load_dotenv(), then AdminManager()
StartInit(procenv, file) ==
    /\ environ = load_dotenv(procenv, file, FALSE)
    /\ env_file = file
    /\ admin_user_ids = AdminManager(environ).admin_user_ids
    /\ admin_channel_ids = AdminManager(environ).admin_channel_ids
    /\ spl_query_enabled = AdminManager(environ).spl_query_enabled
    /\ approval_required = AdminManager(environ).approval_required

EnvInit ==
    /\ \E procenv \in InitProcEnvs, file \in InitFiles : StartInit(procenv, file)
    /\ logs = <<>>
    /\ log_file = <<>>
    /\ handled = 0
    /\ export_files = NoExports
    /\ wait = NoWait
    /\ setup_states = {}
    /\ threads = NoThreads
    /\ inv = NoInv

\* reload_admin_manager(): a new AdminManager, read from the environment
reload_admin_manager(env) == AdminManager(env)

Reloaded(env) ==
    /\ admin_user_ids' = reload_admin_manager(env).admin_user_ids
    /\ admin_channel_ids' = reload_admin_manager(env).admin_channel_ids
    /\ spl_query_enabled' = reload_admin_manager(env).spl_query_enabled
    /\ approval_required' = reload_admin_manager(env).approval_required

Call_update_env_file ==
    /\ handled < MaxCommands
    /\ handled' = handled + 1
    /\ \E key \in {K_ADMINS, K_SPL, K_LIMIT}, io \in IoOutcomes :
          \E value \in UpdateValues(key) :
             LET r == update_env_file(environ, env_file, key, value, io)
             IN  /\ environ' = r.env
                 /\ env_file' = r.file
                 /\ inv' = [NoInv EXCEPT !.op = "update_env_file", !.prev = inv.op,
                                         !.target = key, !.before = value,
                                         !.ret = r.ok, !.write = io]
    /\ UNCHANGED <<admin_user_ids, admin_channel_ids, spl_query_enabled,
                   approval_required, logs, log_file, export_files, wait,
                   setup_states, threads>>

Call_reload_admin_manager ==
    /\ inv.op = "update_env_file"
    /\ Reloaded(environ)
    /\ inv' = [inv EXCEPT !.op = "reload_admin_manager", !.prev = inv.op]
    /\ UNCHANGED <<environ, env_file, logs, log_file, handled, export_files, wait,
                   setup_states, threads>>

EnvNext ==
    \/ Call_update_env_file
    \/ Call_reload_admin_manager

SpecEnv == EnvInit /\ [][EnvNext]_vars

(***************************************************************************)
(* The audit trail (StructuredLogger) as the command handlers use it.      *)
(***************************************************************************)
NoChanges == <<>>
NoError == "None"

\* the log_entry dict of StructuredLogger.log_action; the timestamp is the
\* logical time of the call (the number of entries the trail held before)
log_entry(ts, user_id, command, channel_id, action, result, changes, error) ==
    [timestamp |-> ts, user_id |-> user_id, user_name |-> "unknown",
     command |-> command, channel_id |-> channel_id, channel_name |-> "unknown",
     action |-> action, result |-> result, changes |-> changes, error |-> error]

\* json.dumps(log_entry) + '\n': one line of bot_audit.log
json_line(entry) == [json |-> TRUE, value |-> entry]

AuditIo == {"ok", "fail"}

\* log_action that gives up, without appending, when the write raises
log_action_lost_on_failure(ls, entry, aio) ==
    /\ logs' = IF aio = "ok" THEN Append(ls, entry) ELSE ls
    /\ log_file' = IF aio = "ok" THEN Append(log_file, json_line(entry)) ELSE log_file

\* StructuredLogger.log_action with ls the value of self.logs: the entry is
\* appended in memory, then written to the file unless the write raises
log_action_after(ls, entry, aio) ==
    /\ logs' = Append(ls, entry)
    /\ log_file' = IF aio = "ok" THEN Append(log_file, json_line(entry)) ELSE log_file

\* StructuredLogger.log_action
log_action(entry, aio) == log_action_after(logs, entry, aio)

\* the lines of bot_audit.log that are not the JSON text of an entry: a blank
\* line, text json.loads rejects (JSONDecodeError), text nested so deeply
\* that json.loads raises RecursionError, bytes that are not valid UTF-8
BlankLine == [json |-> FALSE, kind |-> "blank"]
BadJsonLine == [json |-> FALSE, kind |-> "bad_json"]
TooDeepLine == [json |-> FALSE, kind |-> "too_deep"]
UndecodableLine == [json |-> FALSE, kind |-> "undecodable"]

\* the loop of load_logs from line i on: a blank line and a JSONDecodeError
\* are passed over; any other exception leaves the loop (outer except)
RECURSIVE load_from(_, _)
load_from(lines, i) ==
    IF i > Len(lines) THEN <<>>
    ELSE IF lines[i].json THEN <<lines[i].value>> \o load_from(lines, i + 1)
    ELSE IF lines[i].kind \in {"blank", "bad_json"} THEN load_from(lines, i + 1)
    ELSE <<>>

\* StructuredLogger.load_logs.  The file is decoded as it is read, a chunk
\* ahead of the lines handed out; the stores of the model fit in the first
\* chunk, so bytes that cannot be decoded raise before the first line is seen
load_logs(lines) ==
    IF \E i \in 1..Len(lines) : lines[i] = UndecodableLine THEN <<>>
    ELSE load_from(lines, 1)

\* list[start:]
PySliceFrom(list, start) ==
    LET n == Len(list)
        from == IF start < 0 THEN (IF n + start < 0 THEN 0 ELSE n + start)
                ELSE (IF start > n THEN n ELSE start)
    IN  SubSeq(list, from + 1, n)

\* StructuredLogger.get_recent_logs: self.logs[-limit:]
get_recent_logs(ls, limit) == PySliceFrom(ls, 0 - limit)

\* StructuredLogger.get_user_logs
get_user_logs(ls, user_id) == SelectSeq(ls, LAMBDA log : log.user_id = user_id)

\* json.dumps(v): a str holding the JSON text of v, and json.loads of such a
\* text.  The values the trail holds (str, int, None, and mappings from str
\* keys to these) are the ones JSON text gives back unchanged, so the text is
\* represented by the value it encodes; a str is never equal to a mapping.
json_dumps(v) == [dumps |-> v]
json_loads(text) == text.dumps

None == "None"
Absent == [exists |-> FALSE]
ExportIo == {"ok", "fail"}

\* StructuredLogger.export_json: [ret, file, logs]; io = "fail" is open() raising
export_json(ls, file, io) ==
    IF io = "ok" THEN [ret |-> "logs_export.json", file |-> json_dumps(ls), logs |-> ls]
    ELSE [ret |-> None, file |-> file, logs |-> ls]

\* export_csv that writes the header for an empty trail too
export_csv_empty_writes(ls, file, io) ==
    IF io = "ok"
    THEN [ret |-> "logs_export.csv",
          file |-> [header |-> TRUE,
                    rows |-> [i \in 1..Len(ls) |->
                                 [ls[i] EXCEPT !.changes = json_dumps(ls[i].changes)]]],
          logs |-> [i \in 1..Len(ls) |->
                                 [ls[i] EXCEPT !.changes = json_dumps(ls[i].changes)]]]
    ELSE [ret |-> None, file |-> file, logs |-> ls]

\* StructuredLogger.export_csv: nothing is done for an empty trail; otherwise
\* each entry's changes is replaced, in self.logs, by its JSON text, and the
\* entry is written as a row
export_csv(ls, file, io) ==
    IF ls = <<>> THEN [ret |-> None, file |-> file, logs |-> ls]
    ELSE IF io = "ok"
    THEN LET flattened == [i \in 1..Len(ls) |->
                              [ls[i] EXCEPT !.changes = json_dumps(ls[i].changes)]]
         IN  [ret |-> "logs_export.csv",
              file |-> [header |-> TRUE, rows |-> flattened],
              logs |-> flattened]
    ELSE [ret |-> None, file |-> file, logs |-> ls]

\* the changes of an entry are written by export_txt (entry['changes'] truthy)
Truthy(changes) == changes # <<>>

\* StructuredLogger.export_txt
export_txt(ls, file, io) ==
    IF io = "ok"
    THEN [ret |-> "logs_export.txt",
          file |-> [total |-> Len(ls),
                    blocks |-> [i \in 1..Len(ls) |->
                                  [user_id |-> ls[i].user_id, command |-> ls[i].command,
                                   action |-> ls[i].action, result |-> ls[i].result,
                                   changes |-> IF Truthy(ls[i].changes)
                                               THEN json_dumps(ls[i].changes)
                                               ELSE None]]],
          logs |-> ls]
    ELSE [ret |-> None, file |-> file, logs |-> ls]

(***************************************************************************)
(* Spec: the command handlers of app.py, one command at a time.  inv.steps *)
(* lists, in order, what the invocation did: <<"auth", allowed>>,          *)
(* <<"say", message>>, <<"call", backend method>>, <<"log", result>> (an   *)
(* audit_log.log_action) and <<"event", type, details>> (an                *)
(* admin_manager.audit_log, which writes to the process log only).         *)
(***************************************************************************)
C1id == <<"C", "1">>
Users == {U1, U2}
NoMatch == <<>>
UserTargets == {U1, U2, NoMatch}
ChannelTargets == {C1id, NoMatch}

Says(steps) == SelectSeq(steps, LAMBDA x : x[1] = "say")
Calls(steps) == SelectSeq(steps, LAMBDA x : x[1] = "call")
Logged(steps) == SelectSeq(steps, LAMBDA x : x[1] = "log")
Events(steps) == SelectSeq(steps, LAMBDA x : x[1] = "event")

\* the policy state and the trail's length when a command arrives
Snapshot ==
    [admin_user_ids |-> admin_user_ids, admin_channel_ids |-> admin_channel_ids,
     spl_query_enabled |-> spl_query_enabled, approval_required |-> approval_required,
     nlogs |-> Len(logs)]

Invocation(op, user, channel, target, steps, io) ==
    [NoInv EXCEPT !.op = op, !.prev = inv.op, !.user = user, !.channel = channel,
                  !.target = target, !.before = admin_user_ids, !.steps = steps,
                  !.pre = Snapshot, !.write = io]

PolicyUnchanged ==
    UNCHANGED <<environ, env_file, admin_user_ids, admin_channel_ids,
                spl_query_enabled, approval_required>>
TrailUnchanged == UNCHANGED <<logs, log_file>>

\* update_env_file(key, value) followed by reload_admin_manager()
PersistAndReload(key, value, io) ==
    LET r == update_env_file(environ, env_file, key, value, io)
    IN  /\ environ' = r.env
        /\ env_file' = r.file
        /\ Reloaded(r.env)

\* a refusal or an argument error that is written to the audit trail
LoggedRefusal(op, user, channel, target, action, result, error, say) ==
    /\ \E aio \in AuditIo :
          log_action(log_entry(Len(logs), user, op, channel, action, result,
                               NoChanges, error), aio)
    /\ inv' = Invocation(op, user, channel, target,
                         <<<<"auth", result # "DENIED">>, <<"log", result>>, <<"say", say>>>>, "")
    /\ PolicyUnchanged

\* a refusal or an argument error that is only answered
SaidOnly(op, user, channel, target, allowed, say) ==
    /\ inv' = Invocation(op, user, channel, target,
                         <<<<"auth", allowed>>, <<"say", say>>>>, "")
    /\ PolicyUnchanged
    /\ TrailUnchanged

\* handle_admin_add
handle_admin_add ==
    \E user \in Users, target \in UserTargets :
       IF admin_user_ids # <<>> /\ ~is_admin(admin_user_ids, user)
       THEN LoggedRefusal("!admin-add", user, C1id, target, "Attempted to add admin",
                          "DENIED", "User is not admin", "Only admins can add other admins")
       ELSE IF target = NoMatch
       THEN LoggedRefusal("!admin-add", user, C1id, target, "Attempted to add admin",
                          "FAILED", "Invalid user ID format", "Usage")
       ELSE \E io \in IoOutcomes, aio \in AuditIo :
               LET current_admins == add_admin(admin_user_ids, target)
               IN  /\ PersistAndReload(K_ADMINS, join(current_admins, ","), io)
                   /\ log_action(log_entry(Len(logs), user, "!admin-add", C1id,
                                           "Added new admin user", "SUCCESS",
                                           [new_admin |-> target,
                                            total_admins |-> Len(current_admins)],
                                           NoError), aio)
                   /\ inv' = Invocation("!admin-add", user, C1id, target,
                                 <<<<"auth", TRUE>>, <<"say", "Added as admin">>,
                                   <<"event", "ADMIN_ADDED", target>>,
                                   <<"log", "SUCCESS">>>>, io)

\* handle_admin_remove
handle_admin_remove ==
    \E user \in Users, target \in UserTargets :
       IF ~is_admin(admin_user_ids, user)
       THEN LoggedRefusal("!admin-remove", user, C1id, target, "Attempted to remove admin",
                          "DENIED", "User is not admin", "Only admins can remove other admins")
       ELSE IF target = NoMatch
       THEN SaidOnly("!admin-remove", user, C1id, target, TRUE, "Usage")
       ELSE IF target = user /\ Len(admin_user_ids) = 1
       THEN SaidOnly("!admin-remove", user, C1id, target, TRUE,
                     "Cannot remove yourself as the last admin")
       ELSE \E io \in IoOutcomes :
               LET current_admins == remove_admin(admin_user_ids, target)
               IN  /\ PersistAndReload(K_ADMINS, join(current_admins, ","), io)
                   /\ inv' = Invocation("!admin-remove", user, C1id, target,
                                 <<<<"auth", TRUE>>, <<"say", "Removed from admins">>,
                                   <<"event", "ADMIN_REMOVED", target>>>>, io)
                   /\ TrailUnchanged

\* handle_admin_channel_add
handle_admin_channel_add ==
    \E user \in Users, target \in ChannelTargets :
       IF ~is_admin(admin_user_ids, user)
       THEN SaidOnly("!admin-channel-add", user, C1id, target, FALSE,
                     "Only admins can configure channel restrictions")
       ELSE IF target = NoMatch
       THEN SaidOnly("!admin-channel-add", user, C1id, target, TRUE, "Usage")
       ELSE IF ~In(target, admin_channel_ids)
       THEN \E io \in IoOutcomes :
               /\ PersistAndReload(K_CHANNELS, join(Append(admin_channel_ids, target), ","), io)
               /\ inv' = Invocation("!admin-channel-add", user, C1id, target,
                             <<<<"auth", TRUE>>, <<"say", "Added to allowed channels">>>>, io)
               /\ TrailUnchanged
       ELSE SaidOnly("!admin-channel-add", user, C1id, target, TRUE,
                     "Channel already in allowed list")

\* handle_admin_channel_remove
handle_admin_channel_remove ==
    \E user \in Users, target \in ChannelTargets :
       IF ~is_admin(admin_user_ids, user)
       THEN SaidOnly("!admin-channel-remove", user, C1id, target, FALSE,
                     "Only admins can configure channel restrictions")
       ELSE IF target = NoMatch
       THEN SaidOnly("!admin-channel-remove", user, C1id, target, TRUE, "Usage")
       ELSE IF In(target, admin_channel_ids)
       THEN \E io \in IoOutcomes :
               /\ PersistAndReload(K_CHANNELS,
                                   join(ListRemove(admin_channel_ids, target), ","), io)
               /\ inv' = Invocation("!admin-channel-remove", user, C1id, target,
                             <<<<"auth", TRUE>>, <<"say", "Removed from allowed channels">>>>, io)
               /\ TrailUnchanged
       ELSE SaidOnly("!admin-channel-remove", user, C1id, target, TRUE,
                     "Channel not in allowed list")

\* the feature names !feature-toggle is given (lower-cased by the handler)
FeatureArgs == {<<>>, <<"spl_query">>, <<"spl">>, <<"approval">>, <<"require_approval">>,
                <<"bogus">>}

\* handle_feature_toggle
handle_feature_toggle ==
    \E user \in Users, text \in FeatureArgs :
       LET feature == lower(text)
           flag(v) == IF v THEN <<"true">> ELSE <<"false">>
       IN  IF ~is_admin(admin_user_ids, user)
           THEN SaidOnly("!feature-toggle", user, C1id, text, FALSE,
                         "Only admins can toggle features")
           ELSE IF text = <<>>
           THEN SaidOnly("!feature-toggle", user, C1id, text, TRUE, "Usage")
           ELSE IF feature \in {<<"spl_query">>, <<"spl">>}
           THEN \E io \in IoOutcomes :
                   /\ PersistAndReload(K_SPL, flag(~spl_query_enabled), io)
                   /\ inv' = Invocation("!feature-toggle", user, C1id, text,
                                 <<<<"auth", TRUE>>,
                                   <<"say", "SPL Query feature", ~spl_query_enabled>>,
                                   <<"event", "FEATURE_TOGGLED", "spl_query">>>>, io)
                   /\ TrailUnchanged
           ELSE IF feature \in {<<"approval">>, <<"require_approval">>}
           THEN \E io \in IoOutcomes :
                   /\ PersistAndReload(K_APPROVAL, flag(~approval_required), io)
                   /\ inv' = Invocation("!feature-toggle", user, C1id, text,
                                 <<<<"auth", TRUE>>,
                                   <<"say", "Approval requirement", ~approval_required>>,
                                   <<"event", "FEATURE_TOGGLED", "approval">>>>, io)
                   /\ TrailUnchanged
           ELSE SaidOnly("!feature-toggle", user, C1id, text, TRUE, "Unknown feature")

\* the arguments !config-set is given: nothing usable, or a key and a value
ConfigArgs == {NoMatch, <<"result_limit", "7">>, <<"result_limit", "many">>,
               <<"colour", "7">>}
\* int(value) succeeds
IsInt(tok) == tok \in {"5", "7"}

\* handle_config_set
handle_config_set ==
    \E user \in Users, parts \in ConfigArgs :
       IF ~is_admin(admin_user_ids, user)
       THEN SaidOnly("!config-set", user, C1id, parts, FALSE,
                     "Only admins can change configuration")
       ELSE IF parts = NoMatch
       THEN SaidOnly("!config-set", user, C1id, parts, TRUE, "Usage")
       ELSE IF parts[1] = "result_limit" /\ IsInt(parts[2])
       THEN \E io \in IoOutcomes :
               LET r == update_env_file(environ, env_file, K_LIMIT, <<parts[2]>>, io)
               IN  /\ environ' = r.env
                   /\ env_file' = r.file
                   /\ inv' = Invocation("!config-set", user, C1id, parts,
                                 <<<<"auth", TRUE>>, <<"say", "Result limit set">>>>, io)
                   /\ UNCHANGED <<admin_user_ids, admin_channel_ids, spl_query_enabled,
                                  approval_required>>
                   /\ TrailUnchanged
       ELSE IF parts[1] = "result_limit"
       THEN SaidOnly("!config-set", user, C1id, parts, TRUE, "Result limit must be a number")
       ELSE SaidOnly("!config-set", user, C1id, parts, TRUE, "Unknown setting")

\* handle_security_config
handle_security_config ==
    \E user \in Users :
       IF ~is_admin(admin_user_ids, user)
       THEN SaidOnly("!security-config", user, C1id, NoMatch, FALSE,
                     "Only admins can view security configuration")
       ELSE SaidOnly("!security-config", user, C1id, NoMatch, TRUE, "Security Configuration")

\* text[:n]
Take(text, n) == SubSeq(text, 1, IF Len(text) < n THEN Len(text) ELSE n)

\* the length of the query preview of a refused (text[:50]) and of an
\* executed (text[:100]) raw query
PreviewDenied == 50
PreviewExecuted == 100

\* the query texts !splunk-query is given: none, a short one, one longer than
\* the preview of a refusal
QueryTexts == {<<>>, <<"q">>, [i \in 1..(PreviewDenied + 1) |-> "q"]}

\* the job ids the backend hands out
Sids == {"abc123", "def456"}

\* what the Splunk backend does to the calls of one invocation: the job is
\* created with id sid, unless the dispatch fails, and then the wait and the
\* fetch of the results succeed or fail
BackendOutcomes ==
    [outcome : {"ok", "dispatch_error", "wait_error", "timeout", "results_error"},
     sid : Sids]

\* handle_splunk_query whose refusal does not return
splunk_query_steps_fallthrough(auth, channel, text, b) ==
    <<<<"auth", auth[1]>>, <<"say", auth[2]>>,
      <<"event", "DENIED_SPL_QUERY",
        [reason |-> auth[2], channel |-> channel, query_preview |-> Take(text, PreviewDenied)]>>,
      <<"say", "Running SPL query">>, <<"call", "run_spl_query">>>>

\* handle_splunk_query: what one invocation does, in order
splunk_query_steps(auth, channel, text, b) ==
    LET error(method) == <<<<"raised", method>>,
                           <<"say", "Error running SPL query">>,
                           <<"event", "ERROR_SPL_QUERY", [channel |-> channel]>>>>
    IN  IF ~auth[1]
        THEN <<<<"auth", FALSE>>, <<"say", auth[2]>>,
               <<"event", "DENIED_SPL_QUERY",
                 [reason |-> auth[2], channel |-> channel,
                  query_preview |-> Take(text, PreviewDenied)]>>>>
        ELSE IF text = <<>>
        THEN <<<<"auth", TRUE>>, <<"say", "Usage">>>>
        ELSE <<<<"auth", TRUE>>,
               <<"event", "EXECUTED_SPL_QUERY",
                 [channel |-> channel, query_preview |-> Take(text, PreviewExecuted)]>>,
               <<"say", "Running SPL query">>,
               <<"call", "run_spl_query">>>>
             \o (IF b.outcome = "dispatch_error" THEN error("run_spl_query")
                 ELSE <<<<"ret", "run_spl_query", b.sid>>,
                        <<"call", "wait_for_job", b.sid>>>>
                      \o (IF b.outcome = "wait_error" THEN error("wait_for_job")
                          ELSE IF b.outcome = "timeout"
                          THEN <<<<"ret", "wait_for_job", "False">>,
                                 <<"say", "Query started but did not finish in time",
                                   b.sid>>>>
                          ELSE <<<<"ret", "wait_for_job", "True">>,
                                 <<"call", "get_results", b.sid>>>>
                               \o (IF b.outcome = "results_error"
                                   THEN error("get_results")
                                   ELSE <<<<"ret", "get_results", "results">>,
                                          <<"say", "SPL Query Results", b.sid>>>>)))

\* the channels !splunk-query is sent from
D1id == <<"D", "1">>
QueryChannels == {C1id, D1id}

\* the backend is reached only by an allowed query with a text
BackendFor(auth, text) ==
    IF auth[1] /\ text # <<>> THEN BackendOutcomes
    ELSE {CHOOSE b \in BackendOutcomes : TRUE}

\* handle_splunk_query, for a message sent from one of the given channels
splunk_query_from(channels) ==
    \E user \in Users, channel \in channels, text \in QueryTexts :
       \E b \in BackendFor(can_execute_spl(admin_user_ids, spl_query_enabled,
                                            user, channel), text) :
          /\ inv' = Invocation("!splunk-query", user, channel, text,
                       splunk_query_steps(
                           can_execute_spl(admin_user_ids, spl_query_enabled, user, channel),
                           channel, text, b), "")
          /\ PolicyUnchanged
          /\ TrailUnchanged

\* handle_splunk_query
handle_splunk_query == splunk_query_from({C1id})

\* the second word of !export-logs, if any
ExportArgs == {NoMatch, <<"json">>, <<"csv">>, <<"txt">>, <<"xml">>}

\* handle_export_logs
handle_export_logs ==
    \E user \in Users, arg \in ExportArgs :
       LET format_type == IF arg = NoMatch THEN "json" ELSE lower(arg)[1]
       IN  IF ~is_admin(admin_user_ids, user)
           THEN /\ LoggedRefusal("!export-logs", user, C1id, arg, "Attempted to export logs",
                                 "DENIED", "User is not admin", "Only admins can export logs")
                /\ UNCHANGED export_files
           ELSE IF format_type \notin {"json", "csv", "txt"}
           THEN /\ SaidOnly("!export-logs", user, C1id, arg, TRUE, "Invalid format")
                /\ UNCHANGED export_files
           ELSE \E io \in ExportIo, aio \in AuditIo :
                   LET r == CASE format_type = "json" ->
                                     export_json(logs, export_files["json"], io)
                              [] format_type = "csv" ->
                                     export_csv(logs, export_files["csv"], io)
                              [] format_type = "txt" ->
                                     export_txt(logs, export_files["txt"], io)
                       output_file == r.ret
                       entry == IF output_file # None
                                THEN log_entry(Len(r.logs), user, "!export-logs", C1id,
                                               "Exported logs", "SUCCESS",
                                               [format |-> format_type, file |-> output_file],
                                               NoError)
                                ELSE log_entry(Len(r.logs), user, "!export-logs", C1id,
                                               "Attempted to export logs", "FAILED",
                                               NoChanges, "Export process failed")
                   IN  /\ export_files' = [export_files EXCEPT ![format_type] = r.file]
                       /\ log_action_after(r.logs, entry, aio)
                       /\ inv' = Invocation("!export-logs", user, C1id, arg,
                                     <<<<"auth", TRUE>>, <<"call", format_type>>,
                                       <<"ret", output_file>>, <<"log", entry.result>>,
                                       <<"say", IF output_file # None THEN "Logs exported"
                                                ELSE "Failed to export logs">>>>, io)
                       /\ PolicyUnchanged

\* the environments and .env files the bot is started with
MainProcEnvs ==
    {[k \in EnvKeys |-> IF k = K_ADMINS THEN ids ELSE Unset] :
        ids \in {Unset, U1, U1 \o <<",">> \o U1}}
MainFiles ==
    {NoFile,
     [exists |-> TRUE, lines |-> <<env_line(K_ADMINS, U1 \o <<",">> \o U2)>>],
     [exists |-> TRUE, lines |-> <<<<K_LIMIT, "=", "5">>>>]}

\* StructuredLogger.load_logs on a bot_audit.log that does not exist yet
Init ==
    /\ \E procenv \in MainProcEnvs, file \in MainFiles : StartInit(procenv, file)
    /\ logs = <<>>
    /\ log_file = <<>>
    /\ handled = 0
    /\ export_files = NoExports
    /\ wait = NoWait
    /\ setup_states = {}
    /\ threads = NoThreads
    /\ inv = NoInv

\* one more command is handled (at most MaxCommands in a run); the poll loop
\* of a command that waits for a job is followed step by step in SpecWait
HandleOne ==
    handled < MaxCommands /\ handled' = handled + 1 /\ UNCHANGED <<wait, setup_states, threads>>

\* the handlers other than handle_export_logs write no export file
NoExport == UNCHANGED export_files

Next ==
    \/ HandleOne /\ NoExport /\ handle_admin_add
    \/ HandleOne /\ NoExport /\ handle_admin_remove
    \/ HandleOne /\ NoExport /\ handle_admin_channel_add
    \/ HandleOne /\ NoExport /\ handle_admin_channel_remove
    \/ HandleOne /\ NoExport /\ handle_feature_toggle
    \/ HandleOne /\ NoExport /\ handle_config_set
    \/ HandleOne /\ NoExport /\ handle_security_config
    \/ HandleOne /\ NoExport /\ handle_splunk_query
    \/ HandleOne /\ handle_export_logs

Spec == Init /\ [][Next]_vars

(***************************************************************************)
(* SpecTrail: the StructuredLogger object on its own.  It is constructed   *)
(* over some bot_audit.log (load_logs), then its methods are called, at    *)
(* most MaxCommands calls in a run; load_logs again is a restart.          *)
(***************************************************************************)
\* what the handlers of app.py pass to log_action
EntryTemplates ==
    {[command |-> "!admin-add", action |-> "Added new admin user", result |-> "SUCCESS",
      changes |-> [new_admin |-> U2, total_admins |-> 2], error |-> NoError],
     [command |-> "!admin-remove", action |-> "Attempted to remove admin",
      result |-> "DENIED", changes |-> NoChanges, error |-> "User is not admin"]}

entry_of(ts, user_id, t) ==
    log_entry(ts, user_id, t.command, C1id, t.action, t.result, t.changes, t.error)

\* the lines bot_audit.log starts with: entries written by earlier runs, and
\* lines that are not entries
StoreLines ==
    {json_line(entry_of(0, U1, t)) : t \in EntryTemplates}
    \cup {BlankLine, BadJsonLine, TooDeepLine, UndecodableLine}
InitStores == UNION {[1..n -> StoreLines] : n \in 0..MaxFileLines}

\* the entries of the lines of a store that are the JSON text of an entry
StoreEntries(lines) ==
    LET wf == SelectSeq(lines, LAMBDA line : line.json)
    IN  [i \in 1..Len(wf) |-> wf[i].value]

TrailInit ==
    /\ \E store \in InitStores :
          /\ log_file = store
          /\ logs = load_logs(store)
    /\ environ = [k \in EnvKeys |-> Unset]
    /\ env_file = NoFile
    /\ admin_user_ids = AdminManager(environ).admin_user_ids
    /\ admin_channel_ids = AdminManager(environ).admin_channel_ids
    /\ spl_query_enabled = AdminManager(environ).spl_query_enabled
    /\ approval_required = AdminManager(environ).approval_required
    /\ handled = 0
    /\ export_files = NoExports
    /\ wait = NoWait
    /\ setup_states = {}
    /\ threads = NoThreads
    /\ inv = NoInv

TrailSnapshot == [logs |-> logs, log_file |-> log_file, export_files |-> export_files]

TrailCall(op, arg, ret, io) ==
    [NoInv EXCEPT !.op = op, !.prev = inv.op, !.target = arg, !.ret = ret,
                  !.write = io, !.pre = TrailSnapshot]

Call_load_logs ==
    /\ HandleOne /\ PolicyUnchanged
    /\ logs' = load_logs(log_file)
    /\ inv' = TrailCall("load_logs", <<>>, None, "")
    /\ UNCHANGED <<log_file, export_files>>

Call_log_action ==
    /\ HandleOne /\ PolicyUnchanged
    /\ \E user_id \in Users, t \in EntryTemplates, aio \in AuditIo :
          LET entry == entry_of(Len(logs), user_id, t)
          IN  /\ log_action(entry, aio)
              /\ inv' = TrailCall("log_action", entry, None, aio)
    /\ UNCHANGED export_files

\* the limits get_recent_logs is called with
Limits == 0..(MaxFileLines + 1)

Call_get_recent_logs ==
    /\ HandleOne /\ PolicyUnchanged
    /\ \E limit \in Limits :
          inv' = TrailCall("get_recent_logs", limit, get_recent_logs(logs, limit), "")
    /\ UNCHANGED <<logs, log_file, export_files>>

Call_get_user_logs ==
    /\ HandleOne /\ PolicyUnchanged
    /\ \E user_id \in Users :
          inv' = TrailCall("get_user_logs", user_id, get_user_logs(logs, user_id), "")
    /\ UNCHANGED <<logs, log_file, export_files>>

\* an export method: r is what it returns, writes and leaves in self.logs
Exported(op, fmt, r, io) ==
    /\ logs' = r.logs
    /\ export_files' = [export_files EXCEPT ![fmt] = r.file]
    /\ inv' = TrailCall(op, fmt, r.ret, io)
    /\ UNCHANGED log_file

Call_export_json ==
    /\ HandleOne /\ PolicyUnchanged
    /\ \E io \in ExportIo :
          Exported("export_json", "json", export_json(logs, export_files["json"], io), io)

Call_export_csv ==
    /\ HandleOne /\ PolicyUnchanged
    /\ \E io \in ExportIo :
          Exported("export_csv", "csv", export_csv(logs, export_files["csv"], io), io)

Call_export_txt ==
    /\ HandleOne /\ PolicyUnchanged
    /\ \E io \in ExportIo :
          Exported("export_txt", "txt", export_txt(logs, export_files["txt"], io), io)

TrailNext ==
    \/ Call_load_logs
    \/ Call_log_action
    \/ Call_get_recent_logs
    \/ Call_get_user_logs
    \/ Call_export_json
    \/ Call_export_csv
    \/ Call_export_txt

SpecTrail == TrailInit /\ [][TrailNext]_vars

(***************************************************************************)
(* Claims about the AdminManager object (checked under SpecPolicy).        *)
(***************************************************************************)

\* C1: can_execute_spl returns (False, disabled reason) whenever the flag is
\* off, whether or not the user is an admin; (False, restricted reason) when
\* the flag is on and the user is no admin; and (True, granted reason) only
\* when the flag is on and the user is an admin.
C1_CanExecuteSpl ==
    inv.op = "can_execute_spl" =>
        LET admin == \E i \in 1..Len(inv.before) : inv.before[i] = strip_quotes(inv.user)
        IN  /\ ~spl_query_enabled => inv.ret = <<FALSE, R_DISABLED>>
            /\ (spl_query_enabled /\ ~admin) => inv.ret = <<FALSE, R_RESTRICTED>>
            /\ (spl_query_enabled /\ admin) => inv.ret = <<TRUE, R_GRANTED>>
            /\ inv.ret[1] = TRUE => (spl_query_enabled /\ admin)

\* C1 witness: an admin is refused with the disabled reason while the flag is off
C1_Witness ==
    /\ inv.op = "can_execute_spl"
    /\ ~spl_query_enabled
    /\ is_admin(admin_user_ids, inv.user)
    /\ inv.ret = <<FALSE, R_DISABLED>>

\* The part of s between its first and its last character outside cs
\* (empty when s has none): s with the characters of cs trimmed off both ends.
Trimmed(s, cs) ==
    LET keep == {i \in 1..Len(s) : s[i] \notin cs}
    IN  IF keep = {} THEN <<>>
        ELSE LET a == CHOOSE i \in keep : \A j \in keep : i <= j
                 b == CHOOSE i \in keep : \A j \in keep : j <= i
             IN  [k \in 1..(b - a + 1) |-> s[a + k - 1]]

\* C6 as stated: is_admin(u) is true exactly when u with its surrounding
\* whitespace and quote characters trimmed is a member of the roster.
C6_TrimmedMember ==
    inv.op = "is_admin" =>
        (inv.ret = TRUE <=> Trimmed(inv.user, Whitespace \cup QuoteChars) \in ToSet(inv.before))

\* C6 amended: is_admin(u) is true exactly when u with its surrounding
\* whitespace trimmed first, and the surrounding quote characters of what is
\* left trimmed next, is a member of the roster (case-sensitive, exact).
C6_TrimmedInOrderMember ==
    inv.op = "is_admin" =>
        (inv.ret = TRUE <=> Trimmed(Trimmed(inv.user, Whitespace), QuoteChars) \in ToSet(inv.before))

\* C6 witness: a quoted user id with whitespace around it is found in the roster
C6_Witness ==
    /\ inv.op = "is_admin"
    /\ inv.ret = TRUE
    /\ Len(inv.user) = 3
    /\ inv.user[1] \in Whitespace
    /\ inv.user[2] \in QuoteChars

\* C7: is_admin(u) is true immediately after add_admin(u) and false
\* immediately after remove_admin(u), for every user id and every roster.
C7_AddRemoveThenIsAdmin ==
    /\ (inv.op = "is_admin" /\ inv.prev = "add_admin") => inv.ret = TRUE
    /\ (inv.op = "is_admin" /\ inv.prev = "remove_admin") => inv.ret = FALSE

\* C8: add_admin and remove_admin are idempotent: the second of two equal
\* calls leaves the roster as the first left it; add_admin of a present user
\* and remove_admin of an absent user leave the roster unchanged.
C8_Idempotent ==
    /\ (inv.op = "add_admin" /\ inv.prev = "add_admin") => admin_user_ids = inv.before
    /\ (inv.op = "remove_admin" /\ inv.prev = "remove_admin") => admin_user_ids = inv.before
    /\ (inv.op = "add_admin" /\ inv.user \in ToSet(inv.before)) => admin_user_ids = inv.before
    /\ (inv.op = "remove_admin" /\ inv.user \notin ToSet(inv.before)) => admin_user_ids = inv.before

(***************************************************************************)
(* Claims about the configuration store (checked under SpecEnv).           *)
(***************************************************************************)

\* C9: persisting a roster with update_env_file("ADMIN_USER_IDS", joined ids)
\* and then reloading yields a roster with exactly the members persisted.
C9_PersistReloadSameSet ==
    (/\ inv.op = "reload_admin_manager"
     /\ inv.target = K_ADMINS
     /\ inv.ret = TRUE)
    => ToSet(admin_user_ids) = ToSet(parse_id_list(inv.before))

(***************************************************************************)
(* Claims about the command handlers (checked under Spec).                 *)
(***************************************************************************)
Commands ==
    {"!admin-add", "!admin-remove", "!admin-channel-add", "!admin-channel-remove",
     "!feature-toggle", "!config-set", "!security-config", "!splunk-query"}
LastLog == logs[Len(logs)]
\* the roster the .env file holds, read the way the bot reads it at start
FileRoster ==
    parse_id_list(IF dotenv_get(env_file, K_ADMINS) = Unset THEN <<>>
                  ELSE dotenv_get(env_file, K_ADMINS))

\* C2: an invocation of !splunk-query that can_execute_spl refuses makes no
\* call to the Splunk client, and run_spl_query is only ever called after
\* can_execute_spl allowed the caller in the same invocation.
C2_DeniedQueryMakesNoBackendCall ==
    /\ (/\ inv.op = "!splunk-query"
        /\ ~(spl_query_enabled /\ strip_quotes(inv.user) \in ToSet(admin_user_ids)))
       => Calls(inv.steps) = <<>>
    /\ \A i \in 1..Len(inv.steps) :
          inv.steps[i] = <<"call", "run_spl_query">> =>
             /\ inv.op = "!splunk-query"
             /\ spl_query_enabled /\ strip_quotes(inv.user) \in ToSet(admin_user_ids)
             /\ \E j \in 1..(i - 1) : inv.steps[j] = <<"auth", TRUE>>

\* C2 witness: a non-admin sends a query while the feature is on and is refused
C2_Witness ==
    /\ inv.op = "!splunk-query"
    /\ inv.target # <<>>
    /\ spl_query_enabled
    /\ ~is_admin(admin_user_ids, inv.user)
    /\ inv.steps[1] = <<"auth", FALSE>>
    /\ Calls(inv.steps) = <<>>

\* C3: a non-admin's !splunk-query appends exactly one entry with result
\* DENIED to the audit trail, in memory and in the durable store, and the
\* entry carries a preview of the query cut to a bounded length.
C3_DeniedQueryAudited ==
    (inv.op = "!splunk-query" /\ ~is_admin(admin_user_ids, inv.user)) =>
        /\ Len(logs) = inv.pre.nlogs + 1
        /\ LastLog.result = "DENIED"
        /\ LastLog.user_id = inv.user
        /\ Len(log_file) > 0 /\ log_file[Len(log_file)] = json_line(LastLog)
        /\ LastLog.changes # NoChanges
        /\ Len(LastLog.changes.query_preview) <= PreviewDenied

\* C4: every invocation refused by the authorization check appends an
\* audit-trail entry with result DENIED that names the actor and the command.
C4_RefusalAudited ==
    (inv.op \in Commands /\ inv.steps[1] = <<"auth", FALSE>>) =>
        /\ Len(logs) = inv.pre.nlogs + 1
        /\ LastLog.result = "DENIED"
        /\ LastLog.user_id = inv.user
        /\ LastLog.command = inv.op

\* C5: every invocation that changes the admin roster, the channel allowlist
\* or a feature flag appends at least one entry to the audit trail.
C5_PolicyChangeAudited ==
    (/\ inv.op \in Commands
     /\ \/ admin_user_ids # inv.pre.admin_user_ids
        \/ admin_channel_ids # inv.pre.admin_channel_ids
        \/ spl_query_enabled # inv.pre.spl_query_enabled
        \/ approval_required # inv.pre.approval_required)
    => Len(logs) > inv.pre.nlogs

\* C10: after an !admin-add or !admin-remove that went on to rewrite the
\* configuration, whether or not the write succeeded, the roster in memory
\* equals the roster stored in the .env file.
C10_RosterMatchesFile ==
    (inv.op \in {"!admin-add", "!admin-remove"} /\ inv.write # "")
    => admin_user_ids = FileRoster

\* the acknowledgements a handler sends for a change it made
SuccessAcks ==
    {"Added as admin", "Removed from admins", "Added to allowed channels",
     "Removed from allowed channels", "SPL Query feature", "Approval requirement"}

\* the change the acknowledgement of the last invocation claims is in effect
AckInEffect(step) ==
    CASE step[2] = "Added as admin" -> In(inv.target, admin_user_ids)
      [] step[2] = "Removed from admins" -> ~In(inv.target, admin_user_ids)
      [] step[2] = "Added to allowed channels" -> In(inv.target, admin_channel_ids)
      [] step[2] = "Removed from allowed channels" -> ~In(inv.target, admin_channel_ids)
      [] step[2] = "SPL Query feature" -> spl_query_enabled = step[3]
      [] step[2] = "Approval requirement" -> approval_required = step[3]

\* C11: when the .env write fails during admin-add, admin-remove, a channel
\* allow/deny or a feature-toggle, the command sends no success
\* acknowledgement for a change that is not in effect when the handler returns.
C11_WriteFailureSurfaced ==
    (/\ inv.op \in {"!admin-add", "!admin-remove", "!admin-channel-add",
                    "!admin-channel-remove", "!feature-toggle"}
     /\ inv.write \in {"fail_before", "fail_truncated"})
    => \A i \in 1..Len(inv.steps) :
          (inv.steps[i][1] = "say" /\ inv.steps[i][2] \in SuccessAcks)
             => AckInEffect(inv.steps[i])

(***************************************************************************)
(* Claims about the StructuredLogger object (checked under SpecTrail).     *)
(***************************************************************************)
Min(a, b) == IF a < b THEN a ELSE b
\* the last n entries of a list, in their order
LastN(list, n) == SubSeq(list, Len(list) - Min(n, Len(list)) + 1, Len(list))
\* a str holding JSON text, as opposed to a mapping
IsJsonText(v) == "dumps" \in DOMAIN v

\* C12: no call of log_action, get_recent_logs, get_user_logs, export_json,
\* export_csv or export_txt changes or removes an entry that is already in
\* the in-memory sequence: each keeps its position and every field.
C12_EntriesNeverChange ==
    [][inv'.op # "load_logs" =>
          /\ Len(logs') >= Len(logs)
          /\ \A i \in 1..Len(logs) : logs'[i] = logs[i]]_vars

\* C13: a log_action call made when the in-memory sequence and the entries of
\* the durable store are the same, in the same order, leaves them the same.
C13_MemoryEqualsStore ==
    (/\ inv.op = "log_action"
     /\ inv.pre.logs = StoreEntries(inv.pre.log_file))
    => logs = StoreEntries(log_file)

C15_RecentIsLastN ==
    inv.op = "get_recent_logs" => inv.ret = LastN(logs, inv.target)

\* C16: re-importing the file export_json wrote gives back every entry as
\* log_action recorded it, in order: the entries of the in-memory sequence,
\* each with the mapping it was given as changes.
C16_JsonRoundTrip ==
    (inv.op = "export_json" /\ inv.ret # None) =>
        LET imported == json_loads(export_files["json"])
        IN  /\ imported = logs
            /\ \A i \in 1..Len(imported) : ~IsJsonText(imported[i].changes)

\* C17: load_logs leaves in memory exactly the entries of the well-formed
\* lines of the store, in file order; malformed and blank lines are skipped
\* and do not keep later lines from being loaded.
C17_LoadSkipsMalformed ==
    (inv.op = "load_logs" \/ (inv.op = "init" /\ handled = 0))
    => logs = StoreEntries(log_file)

(***************************************************************************)
(* Claims about the export of the trail (checked under Spec).              *)
(***************************************************************************)
\* C18: on an empty trail export_csv returns None and writes no file, while
\* export_json and export_txt, when the file can be written, write it and
\* return its path; !export-logs csv is then recorded as FAILED.
C18_EmptyTrailExport ==
    (/\ inv.op = "!export-logs"
     /\ inv.pre.nlogs = 0
     /\ Calls(inv.steps) # <<>>)
    => LET format_type == Calls(inv.steps)[1][2]
           output_file == inv.steps[3][2]
       IN  /\ Len(logs) = 1
           /\ logs[1].command = "!export-logs" /\ logs[1].user_id = inv.user
           /\ IF format_type = "csv"
              THEN /\ output_file = None
                   /\ export_files = NoExports
                   /\ logs[1].result = "FAILED"
              ELSE inv.write = "ok" =>
                      /\ output_file = IF format_type = "json" THEN "logs_export.json"
                                       ELSE "logs_export.txt"
                      /\ export_files[format_type] # Absent
                      /\ logs[1].result = "SUCCESS"

\* C18 witness: an admin asks for the CSV export of a trail with no entries
C18_Witness ==
    /\ inv.op = "!export-logs"
    /\ inv.pre.nlogs = 0
    /\ inv.steps[1] = <<"auth", TRUE>>
    /\ inv.steps[2] = <<"call", "csv">>
    /\ inv.write = "ok"
    /\ logs[1].result = "FAILED"


(***************************************************************************)
(* Claims about repeated exports (checked under SpecTrail).                *)
(***************************************************************************)
ExportCalls == {"export_json", "export_csv", "export_txt"}

\* C39: with no log_action in between, an export that follows a successful
\* export in the same format writes the same content, and export_json writes
\* after a successful export_csv what it would have written before it.
C39_ExportRepeatable ==
    [][/\ (/\ inv.op \in ExportCalls /\ inv.ret # None
           /\ inv'.op = inv.op /\ inv'.ret # None)
          => export_files'[inv.target] = export_files[inv.target]
       /\ (inv'.op = "export_csv" /\ inv'.ret # None)
          => export_json(logs', Absent, "ok").file = export_json(logs, Absent, "ok").file
      ]_vars
(***************************************************************************)
(* SpecWait: SplunkClient.wait_for_job, one statement at a time.  Time is  *)
(* counted in ticks of half a second; wait.now is time.time().  wait.pc is *)
(* "idle" before the call, "while" at the loop test, "get" before the      *)
(* request, "sleep" before time.sleep, "returned" or "raised" after the    *)
(* call.  wait.done_polls counts the polls the backend answered with a     *)
(* done job (0, 1, or 2 for more than one).                                *)
(***************************************************************************)
MaxWaitTicks == 6
MaxDelay == 1

\* poll_interval_sec = 1.5, in ticks
PollIntervalTicks == 3

\* what one GET of /services/search/jobs/{sid} meets
Responses ==
    {"isDone true", "isDone '1'", "isDone 1", "isDone false", "isDone '0'",
     "no isDone", "error status", "undecodable body", "no response"}

\* requests.get, resp.raise_for_status() or resp.json() raises
poll_raises(resp) == resp \in {"error status", "undecodable body", "no response"}

\* content.get("isDone")
is_done_of(resp) ==
    CASE resp = "isDone true" -> "True"
      [] resp = "isDone '1'" -> "'1'"
      [] resp = "isDone 1" -> "1"
      [] resp = "isDone false" -> "False"
      [] resp = "isDone '0'" -> "'0'"
      [] OTHER -> "None"

\* a test that takes any answer for a done job
observed_done_any(is_done) == TRUE

\* is_done in (True, "1", 1)
observed_done(is_done) == is_done \in {"True", "'1'", "1"}

\* time.sleep that returns at once
after_sleep_at_once(now, extra) == now

\* time.time() after time.sleep(poll_interval_sec), which sleeps no less
after_sleep(now, extra) == now + PollIntervalTicks + extra

\* the backend reports the job done
ReportsDone(resp) == resp \in {"isDone true", "isDone '1'", "isDone 1"}

WaitInit ==
    /\ environ = [k \in EnvKeys |-> Unset]
    /\ env_file = NoFile
    /\ admin_user_ids = AdminManager(environ).admin_user_ids
    /\ admin_channel_ids = AdminManager(environ).admin_channel_ids
    /\ spl_query_enabled = AdminManager(environ).spl_query_enabled
    /\ approval_required = AdminManager(environ).approval_required
    /\ logs = <<>>
    /\ log_file = <<>>
    /\ handled = 0
    /\ export_files = NoExports
    /\ wait = NoWait
    /\ setup_states = {}
    /\ threads = NoThreads
    /\ inv = NoInv

WaitFrame ==
    UNCHANGED <<environ, env_file, admin_user_ids, admin_channel_ids, spl_query_enabled,
                approval_required, logs, log_file, handled, export_files,
                setup_states, threads, inv>>

\* wait_for_job(sid, max_wait_sec): start = time.time()
Call_wait_for_job ==
    /\ wait.pc = "idle"
    /\ \E max_wait \in (0 - 1)..MaxWaitTicks :
          wait' = [pc |-> "while", max_wait |-> max_wait, start |-> 0, now |-> 0,
                   last |-> "none", done_polls |-> 0, polled_after_done |-> FALSE,
                   ret |-> None]
    /\ WaitFrame

\* a loop test that lets a poll start when the budget is just used up
within_budget_inclusive(now, start, max_wait_sec) == now - start <= max_wait_sec

\* time.time() - start < max_wait_sec
within_budget(now, start, max_wait_sec) == now - start < max_wait_sec

\* while time.time() - start < max_wait_sec: ... return False
WhileTest ==
    /\ wait.pc = "while"
    /\ wait' = IF within_budget(wait.now, wait.start, wait.max_wait)
               THEN [wait EXCEPT !.pc = "get"]
               ELSE [wait EXCEPT !.pc = "returned", !.ret = "False"]
    /\ WaitFrame

\* one poll: the request, its checks and the test of isDone
Poll ==
    /\ wait.pc = "get"
    /\ \E resp \in Responses, delay \in 0..MaxDelay :
          LET polled == [wait EXCEPT !.now = @ + delay, !.last = resp,
                                     !.polled_after_done = (wait.done_polls > 0),
                                     !.done_polls = IF ReportsDone(resp) /\ @ < 2
                                                    THEN @ + 1 ELSE @]
          IN  wait' = IF poll_raises(resp) THEN [polled EXCEPT !.pc = "raised"]
                      ELSE IF observed_done(is_done_of(resp))
                      THEN [polled EXCEPT !.pc = "returned", !.ret = "True"]
                      ELSE [polled EXCEPT !.pc = "sleep"]
    /\ WaitFrame

\* time.sleep(poll_interval_sec)
Sleep ==
    /\ wait.pc = "sleep"
    /\ \E extra \in 0..MaxDelay :
          wait' = [wait EXCEPT !.pc = "while", !.now = after_sleep(@, extra)]
    /\ WaitFrame

WaitNext ==
    \/ Call_wait_for_job
    \/ WhileTest
    \/ Poll
    \/ Sleep

SpecWait == WaitInit /\ [][WaitNext]_vars

\* the thread that called wait_for_job keeps running
SpecWaitFair == SpecWait /\ WF_vars(WaitNext)

(***************************************************************************)
(* Claims about wait_for_job (checked under SpecWait and SpecWaitFair).    *)
(***************************************************************************)
\* C19: wait_for_job returns True at the first poll that finds the job done
\* and polls no more, returns False only when no poll found it done and the
\* budget has elapsed, never returns True without such a poll, and starts no
\* poll once the budget has elapsed.
C19_WaitResult ==
    /\ (wait.pc = "returned" /\ wait.ret = "True") =>
          ReportsDone(wait.last) /\ wait.done_polls = 1
    /\ (wait.pc = "returned" /\ wait.ret = "False") =>
          wait.done_polls = 0 /\ wait.now - wait.start >= wait.max_wait
    /\ (wait.pc # "idle" /\ wait.done_polls > 0) =>
          wait.pc = "returned" /\ wait.ret = "True" /\ ~wait.polled_after_done
    /\ wait.pc = "get" => wait.now - wait.start < wait.max_wait

\* C19 witness: the job is found done by a poll made after a sleep
C19_Witness ==
    /\ wait.pc = "returned"
    /\ wait.ret = "True"
    /\ wait.now >= PollIntervalTicks
    /\ wait.done_polls = 1

\* C20 as claimed: every call of wait_for_job ends by returning True or False.
C20_AlwaysReturns == <>(wait.pc = "returned")

\* C20: every call of wait_for_job ends: it returns True or False, or the
\* error of a poll (error status, undecodable body, no response) is raised.
C20_AlwaysEnds == <>(wait.pc \in {"returned", "raised"})

\* C20 witness: a poll made after a sleep meets an error status
C20_Witness ==
    /\ wait.pc = "raised"
    /\ wait.last = "error status"
    /\ wait.now >= PollIntervalTicks

\* C40: a call with a positive budget returns False only after at least one
\* poll; a call with a budget of zero or less makes no poll and returns False,
\* whatever the backend would have answered.
C40_PollsBeforeFalse ==
    /\ (wait.pc = "returned" /\ wait.ret = "False" /\ wait.max_wait > 0) =>
          wait.last # "none"
    /\ (wait.pc \notin {"idle", "while"} /\ wait.max_wait <= 0) =>
          wait.pc = "returned" /\ wait.ret = "False" /\ wait.last = "none"

\* C40 witness: a call with a positive budget has returned False after a poll
\* that found the job not done
C40_Witness ==
    /\ wait.pc = "returned"
    /\ wait.ret = "False"
    /\ wait.max_wait > 0
    /\ wait.last = "isDone false"

\* a call with a negative budget has returned False without a poll
C40_NoPollReached ==
    /\ wait.pc = "returned"
    /\ wait.ret = "False"
    /\ wait.max_wait < 0
    /\ wait.last = "none"


(***************************************************************************)
(* SpecClient: the job-creating methods of SplunkClient on their own.      *)
(* dispatch_saved_search and run_spl_query post one request and read the   *)
(* job id from the answer; at most MaxCommands calls in a run.             *)
(***************************************************************************)
\* a field the decoded object does not have
Missing == "<missing>"

\* the status codes the backend answers with
StatusCodes == {200, 201, 300, 400, 404, 500}

\* the values of a sid field: none, an empty one, a top-level and a nested id
TopSids == {Missing, "", "top1"}
NestedSids == {Missing, "", "nested1"}

\* the first element of the "entry" list: without "content", or with a
\* content object that may hold a sid
Entries == {[has_content |-> FALSE, sid |-> Missing]}
           \cup {[has_content |-> TRUE, sid |-> s] : s \in NestedSids}

\* the "entry" field: missing, an empty list, or a list of one element
EntryLists == {[present |-> FALSE, items |-> <<>>], [present |-> TRUE, items |-> <<>>]}
              \cup {[present |-> TRUE, items |-> <<e>>] : e \in Entries}

\* the bodies of an answer: text that is not JSON, or a JSON object
Payloads == {[json |-> FALSE, sid |-> Missing, entry |-> [present |-> FALSE, items |-> <<>>]]}
            \cup {[json |-> TRUE, sid |-> s, entry |-> e] : s \in TopSids, e \in EntryLists}

\* what requests.post gives: an answer, or an exception when there is none
NoAnswer == [answered |-> FALSE, status_code |-> 0,
             payload |-> [json |-> FALSE, sid |-> Missing,
                          entry |-> [present |-> FALSE, items |-> <<>>]]]
PostAnswers == {NoAnswer}
               \cup {[answered |-> TRUE, status_code |-> c, payload |-> p] :
                        c \in StatusCodes, p \in Payloads}

\* dict.get(key): None for a missing field
dict_get(v) == IF v = Missing THEN None ELSE v

\* not sid
NotSid(sid) == sid \in {None, ""}

\* payload["entry"][0].get("content", {}).get("sid")
entry_sid(payload) ==
    LET first == payload.entry.items[1]
    IN  IF first.has_content THEN dict_get(first.sid) ELSE None

\* the tail both methods share, lines 52-61 and 178-187: [raised, ret]
sid_of_payload(payload) ==
    IF ~payload.json THEN [raised |-> "JSONDecodeError", ret |-> None]
    ELSE LET top == dict_get(payload.sid)
             sid == IF NotSid(top) /\ payload.entry.present /\ payload.entry.items # <<>>
                    THEN entry_sid(payload)
                    ELSE top
         IN  IF NotSid(sid) THEN [raised |-> "RuntimeError: Could not get SID", ret |-> None]
             ELSE [raised |-> "", ret |-> sid]

\* SplunkClient.dispatch_saved_search
dispatch_saved_search(resp) ==
    IF ~resp.answered THEN [raised |-> "RequestException", ret |-> None]
    ELSE IF resp.status_code >= 400
    THEN [raised |-> "RuntimeError: Splunk job create failed", ret |-> None]
    ELSE sid_of_payload(resp.payload)

\* SplunkClient.run_spl_query
run_spl_query(resp) ==
    IF ~resp.answered THEN [raised |-> "RequestException", ret |-> None]
    ELSE IF resp.status_code >= 400
    THEN [raised |-> "RuntimeError: Splunk query failed", ret |-> None]
    ELSE sid_of_payload(resp.payload)

ClientInit == WaitInit

\* the client keeps no state: a call leaves everything but its record alone
ClientFrame == HandleOne /\ NoExport /\ PolicyUnchanged /\ TrailUnchanged

ClientCall(op, resp, r) ==
    [NoInv EXCEPT !.op = op, !.prev = inv.op, !.target = resp, !.ret = r]

Call_dispatch_saved_search ==
    /\ ClientFrame
    /\ \E resp \in PostAnswers :
          inv' = ClientCall("dispatch_saved_search", resp, dispatch_saved_search(resp))

Call_run_spl_query ==
    /\ ClientFrame
    /\ \E resp \in PostAnswers :
          inv' = ClientCall("run_spl_query", resp, run_spl_query(resp))

ClientNext ==
    \/ Call_dispatch_saved_search
    \/ Call_run_spl_query

SpecClient == ClientInit /\ [][ClientNext]_vars

\* the job id in the top-level field, and the one nested in the first entry
TopSid(payload) == IF payload.sid \in {Missing, ""} THEN None ELSE payload.sid
NestedSid(payload) ==
    IF /\ payload.entry.items # <<>>
       /\ payload.entry.items[1].has_content
       /\ payload.entry.items[1].sid \notin {Missing, ""}
    THEN payload.entry.items[1].sid
    ELSE None

\* C21: dispatch_saved_search and run_spl_query raise an error whenever the
\* status is not 2xx or the decoded answer has no job id in either shape, and
\* otherwise return the job id: the top-level sid when there is one, the sid
\* nested in the first entry's content only when there is no top-level one.
C21_JobIdOrError ==
    inv.op \in {"dispatch_saved_search", "run_spl_query"} =>
       LET resp == inv.target
           top == TopSid(resp.payload)
           nested == NestedSid(resp.payload)
       IN  IF resp.status_code \notin 200..299 \/ (top = None /\ nested = None)
           THEN inv.ret.raised # ""
           ELSE /\ inv.ret.raised = ""
                /\ inv.ret.ret = IF top # None THEN top ELSE nested

(***************************************************************************)
(* SpecSearch: the search commands of app.py and the setup wizard's first  *)
(* step, one command at a time.  A text is what follows the command word.  *)
(* In inv.steps <<"ret", method, value>> is a call that returned,          *)
(* <<"raised", function>> one that raised, and <<"unhandled", exception>>  *)
(* an exception that leaves the handler.                                   *)
(***************************************************************************)
\* the texts the search commands are given: nothing, blanks, help, a name,
\* a name with parameters (a numeric, a non-numeric and an empty limit, another
\* parameter, a limit given twice), and a first word that holds "="
SearchTexts ==
    {<<>>, <<" ">>, <<"help">>, <<"n">>,
     <<"n", " ", "limit", "=", "7">>,
     <<"n", " ", "limit", "=", "n">>,
     <<"n", " ", "limit", "=">>,
     <<"n", " ", "earliest", "=", "7">>,
     <<"n", " ", "limit", "=", "n", " ", "limit", "=", "7">>,
     <<"limit", "=", "n">>}

\* str.split() with no argument: the words between runs of whitespace
split_ws(s) ==
    SelectSeq(split([i \in 1..Len(s) |-> IF s[i] \in Whitespace THEN " " ELSE s[i]], " "),
              LAMBDA word : word # <<>>)

\* k, v = token.split("=", 1), both stripped
key_value(token) ==
    LET i == CHOOSE j \in 1..Len(token) :
                 token[j] = "=" /\ \A k \in 1..(j - 1) : token[k] # "="
    IN  <<strip(SubSeq(token, 1, i - 1), Whitespace),
          strip(SubSeq(token, i + 1, Len(token)), Whitespace)>>

\* parse_args(text): (search_name, params); search_name <<>> stands for None
\* and params lists the assignments to the dict in order
parse_args(text) ==
    LET t == strip(text, Whitespace)
        parts == split_ws(t)
        assigned == SelectSeq(Tail(parts), LAMBDA token : In("=", token))
    IN  IF t = <<>> THEN [search_name |-> <<>>, params |-> <<>>]
        ELSE [search_name |-> parts[1],
              params |-> [i \in 1..Len(assigned) |-> key_value(assigned[i])]]

\* params.get(key, default): the last assignment to the key wins
params_get(params, key, default) ==
    LET hits == {i \in 1..Len(params) : params[i][1] = key}
    IN  IF hits = {} THEN default
        ELSE params[CHOOSE i \in hits : \A j \in hits : j <= i][2]

\* int(value) returns: value is a text of digits
int_ok(value) == value # <<>> /\ \A i \in 1..Len(value) : IsInt(value[i])

\* RESULT_LIMIT and the default limit of !search-list
RESULT_LIMIT == <<"5">>
ListLimit == <<"2", "0">>

\* run_search_and_respond that fetches the results whatever wait_for_job returned
run_search_fetching_always(search_name, params, b) ==
    <<<<"say", "Running Splunk saved search">>,
      <<"call", "dispatch_saved_search">>,
      <<"ret", "dispatch_saved_search", b.sid>>,
      <<"call", "wait_for_job", b.sid>>,
      <<"ret", "wait_for_job", IF b.outcome = "timeout" THEN "False" ELSE "True">>,
      <<"call", "get_results", b.sid>>,
      <<"ret", "get_results", "results">>,
      <<"say", "results", b.sid>>>>

\* run_search_and_respond that dispatches again when the dispatch failed
run_search_dispatching_again(search_name, params, b) ==
    <<<<"say", "Running Splunk saved search">>,
      <<"call", "dispatch_saved_search">>,
      <<"raised", "dispatch_saved_search">>,
      <<"call", "dispatch_saved_search">>,
      <<"raised", "dispatch_saved_search">>>>

\* run_search_and_respond(search_name, params, respond_fn): what it does, in
\* order; a last step "raised" is an exception that leaves it
run_search_and_respond(search_name, params, b) ==
    IF ~int_ok(params_get(params, <<"limit">>, RESULT_LIMIT))
    THEN <<<<"raised", "int">>>>
    ELSE <<<<"say", "Running Splunk saved search">>,
           <<"call", "dispatch_saved_search">>>>
         \o (IF b.outcome = "dispatch_error"
             THEN <<<<"raised", "dispatch_saved_search">>>>
             ELSE <<<<"ret", "dispatch_saved_search", b.sid>>,
                    <<"call", "wait_for_job", b.sid>>>>
                  \o (IF b.outcome = "wait_error"
                      THEN <<<<"raised", "wait_for_job">>>>
                      ELSE IF b.outcome = "timeout"
                      THEN <<<<"ret", "wait_for_job", "False">>,
                             <<"say", "started, but job did not finish in time", b.sid>>>>
                      ELSE <<<<"ret", "wait_for_job", "True">>,
                             <<"call", "get_results", b.sid>>>>
                           \o (IF b.outcome = "results_error"
                               THEN <<<<"raised", "get_results">>>>
                               ELSE <<<<"ret", "get_results", "results">>,
                                      <<"say", "results", b.sid>>>>)))

\* the steps end with an exception
Raises(steps) == steps # <<>> /\ steps[Len(steps)][1] = "raised"

\* an invocation of a command everybody may send
SearchInvocation(op, user, text, steps) ==
    /\ inv' = Invocation(op, user, C1id, text, steps, "")
    /\ PolicyUnchanged
    /\ TrailUnchanged

\* handle_search_alert
handle_search_alert ==
    \E user \in Users, text \in SearchTexts, b \in BackendOutcomes :
       LET args_text == strip(text, Whitespace)
           parsed == parse_args(args_text)
           run == run_search_and_respond(parsed.search_name, parsed.params, b)
       IN  SearchInvocation("!search-alert", user, text,
              IF args_text = <<>> \/ lower(args_text) = <<"help">>
              THEN <<<<"say", "Usage">>>>
              ELSE IF parsed.search_name = <<>>
              THEN <<<<"say", "Please provide a search name">>>>
              ELSE IF Raises(run)
              THEN Append(run, <<"say", "Error running saved search">>)
              ELSE run)

\* what list_saved_searches, get_search_info and get_server_info do
ListOutcomes == {"error", "none", "some"}
InfoOutcomes == {"error", "ok"}

\* handle_search_list
handle_search_list ==
    \E user \in Users, text \in SearchTexts, b \in ListOutcomes :
       LET parsed == parse_args(strip(text, Whitespace))
       IN  SearchInvocation("!search-list", user, text,
              IF ~int_ok(params_get(parsed.params, <<"limit">>, ListLimit))
              THEN <<<<"raised", "int">>, <<"unhandled", "ValueError">>>>
              ELSE <<<<"call", "list_saved_searches">>>>
                   \o (CASE b = "error" ->
                              <<<<"raised", "list_saved_searches">>,
                                <<"say", "Error listing saved searches">>>>
                         [] b = "none" ->
                              <<<<"ret", "list_saved_searches", "[]">>,
                                <<"say", "No saved searches found">>>>
                         [] b = "some" ->
                              <<<<"ret", "list_saved_searches", "searches">>,
                                <<"say", "Found saved search(es)">>>>))

\* handle_search_info without its try/except
handle_search_info_uncaught ==
    \E user \in Users, text \in SearchTexts, b \in InfoOutcomes :
       SearchInvocation("!search-info", user, text,
          <<<<"call", "get_search_info">>>>
          \o (IF b = "error"
              THEN <<<<"raised", "get_search_info">>, <<"unhandled", "RuntimeError">>>>
              ELSE <<<<"ret", "get_search_info", "info">>, <<"say", "Search">>>>))

\* handle_search_info
handle_search_info ==
    \E user \in Users, text \in SearchTexts, b \in InfoOutcomes :
       LET parsed == parse_args(strip(text, Whitespace))
       IN  SearchInvocation("!search-info", user, text,
              IF parsed.search_name = <<>>
              THEN <<<<"say", "Usage">>>>
              ELSE <<<<"call", "get_search_info">>>>
                   \o (IF b = "error"
                       THEN <<<<"raised", "get_search_info">>,
                              <<"say", "Error getting search info">>>>
                       ELSE <<<<"ret", "get_search_info", "info">>,
                              <<"say", "Search">>>>))

\* handle_splunk_status
handle_splunk_status ==
    \E user \in Users, b \in InfoOutcomes :
       SearchInvocation("!splunk-status", user, <<>>,
          <<<<"call", "get_server_info">>>>
          \o (IF b = "error"
              THEN <<<<"raised", "get_server_info">>, <<"say", "Cannot reach Splunk">>>>
              ELSE <<<<"ret", "get_server_info", "info">>,
                     <<"say", "Splunk Server Status">>>>))

\* the configuration a cancelled wizard is said to leave unchanged
Configuration ==
    [admin_user_ids |-> admin_user_ids, admin_channel_ids |-> admin_channel_ids,
     spl_query_enabled |-> spl_query_enabled, approval_required |-> approval_required,
     env_file |-> env_file]

\* user_id in setup_states
in_setup(states, user_id) == \E e \in states : e.user = user_id

\* setup_states[user_id]
setup_state(states, user_id) == CHOOSE e \in states : e.user = user_id

\* del setup_states[user_id]
del_setup(states, user_id) == {e \in states : e.user # user_id}

\* setup_states[user_id] = {"step": "start"}.  began is not a field of the
\* program's dict: it remembers the configuration as it was when the !setup
\* that wrote the entry arrived.
start_setup(states, user_id, began) ==
    del_setup(states, user_id) \cup {[user |-> user_id, step |-> "start", began |-> began]}

\* a wizard that goes from the first step to the last at once
next_step_skipping(current_step) == "complete"

\* the step handle_setup_next moves to
next_step(current_step) ==
    CASE current_step = "start" -> "channels"
      [] current_step = "channels" -> "features"
      [] current_step = "features" -> "limits"
      [] current_step = "limits" -> "complete"
      [] OTHER -> current_step

\* what handle_setup_next says at a step
next_say(current_step) ==
    CASE current_step = "start" -> "Step 2/5: Channel Restrictions"
      [] current_step = "channels" -> "Step 3/5: Feature Configuration"
      [] current_step = "features" -> "Step 4/5: Result Limits"
      [] current_step = "limits" -> "Step 5/5: Review & Complete"
      [] OTHER -> "Setup already complete"

\* setup_states[user_id]["step"] = step
set_step(states, user_id, step) ==
    {IF e.user = user_id THEN [e EXCEPT !.step = step] ELSE e : e \in states}

\* handle_setup
handle_setup ==
    \E user \in Users :
       IF admin_user_ids # <<>> /\ ~is_admin(admin_user_ids, user)
       THEN /\ SaidOnly("!setup", user, C1id, NoMatch, FALSE, "Only admins can run setup")
            /\ UNCHANGED setup_states
       ELSE IF admin_user_ids = <<>>
       THEN \E io \in IoOutcomes :
               /\ PersistAndReload(K_ADMINS, user, io)
               /\ setup_states' = start_setup(setup_states, user, Configuration)
               /\ inv' = Invocation("!setup", user, C1id, NoMatch,
                             <<<<"auth", TRUE>>,
                               <<"say", "You've been added as the first admin">>,
                               <<"say", "Welcome to Bot Setup Wizard">>>>, io)
               /\ TrailUnchanged
       ELSE /\ SaidOnly("!setup", user, C1id, NoMatch, TRUE, "Welcome to Bot Setup Wizard")
            /\ setup_states' = start_setup(setup_states, user, Configuration)

\* handle_setup_cancel
handle_setup_cancel ==
    \E user \in Users :
       /\ SaidOnly("!setup-cancel", user, C1id, NoMatch, TRUE,
                   IF in_setup(setup_states, user)
                   THEN "Setup cancelled. Configuration unchanged."
                   ELSE "No setup in progress")
       /\ setup_states' = del_setup(setup_states, user)

\* handle_setup_next
handle_setup_next ==
    \E user \in Users :
       IF ~in_setup(setup_states, user)
       THEN /\ SaidOnly("!setup-next", user, C1id, NoMatch, TRUE, "No setup in progress")
            /\ UNCHANGED setup_states
       ELSE LET current_step == setup_state(setup_states, user).step
            IN  /\ SaidOnly("!setup-next", user, C1id, NoMatch, TRUE, next_say(current_step))
                /\ setup_states' = set_step(setup_states, user, next_step(current_step))

\* handle_setup_finish
handle_setup_finish ==
    \E user \in Users :
       /\ SaidOnly("!setup-finish", user, C1id, NoMatch, TRUE,
                   IF in_setup(setup_states, user) THEN "Setup Complete!"
                   ELSE "No setup in progress")
       /\ setup_states' = del_setup(setup_states, user)

\* one more command is handled; the handler may write setup_states
CommandOne == handled < MaxCommands /\ handled' = handled + 1 /\ UNCHANGED <<wait, threads>>

\* the bot is started without admins, or with the admin U1
SearchProcEnvs ==
    {[k \in EnvKeys |-> IF k = K_ADMINS THEN ids ELSE Unset] : ids \in {Unset, U1}}

SearchInit ==
    /\ \E procenv \in SearchProcEnvs : StartInit(procenv, NoFile)
    /\ logs = <<>>
    /\ log_file = <<>>
    /\ handled = 0
    /\ export_files = NoExports
    /\ wait = NoWait
    /\ setup_states = {}
    /\ threads = NoThreads
    /\ inv = NoInv

SearchNext ==
    \/ HandleOne /\ NoExport /\ handle_search_alert
    \/ HandleOne /\ NoExport /\ handle_search_list
    \/ HandleOne /\ NoExport /\ handle_search_info
    \/ HandleOne /\ NoExport /\ handle_splunk_status
    \/ HandleOne /\ NoExport /\ handle_splunk_query
    \/ CommandOne /\ NoExport /\ handle_setup

SpecSearch == SearchInit /\ [][SearchNext]_vars

(***************************************************************************)
(* Claims about the search commands (SpecSearch).                          *)
(***************************************************************************)
\* the client methods that create a job, and all the methods that ask the backend
DispatchMethods == {"dispatch_saved_search", "run_spl_query"}
BackendMethods ==
    DispatchMethods \cup {"wait_for_job", "get_results", "list_saved_searches",
                          "get_search_info", "get_server_info"}

IsCall(x, method) == x[1] = "call" /\ x[2] = method
IsRet(x, method, value) == x[1] = "ret" /\ x[2] = method /\ x[3] = value
IsRaised(x) == x[1] = "raised" /\ x[2] \in BackendMethods
SearchCommands == {"!search-alert", "!splunk-query"}

\* C22: in an invocation of a search command the client is called in the
\* order dispatch, wait_for_job, get_results, each at most once; get_results
\* is called for a sid only after wait_for_job returned True for that sid,
\* the sid the dispatch returned; when wait_for_job returned False nothing
\* is called afterwards (no fetch, no cancel, no delete) and a message that
\* carries the sid is sent.
C22_DispatchWaitFetch ==
    inv.op \in SearchCommands =>
       LET steps == inv.steps
           calls == Calls(steps)
       IN  /\ Len(calls) <= 3
           /\ \A k \in 1..Len(calls) :
                 CASE k = 1 -> calls[k][2] \in DispatchMethods
                   [] k = 2 -> calls[k][2] = "wait_for_job"
                   [] k = 3 -> calls[k][2] = "get_results"
           /\ \A i \in 1..Len(steps) :
                 IsCall(steps[i], "get_results") =>
                    /\ i >= 4
                    /\ IsRet(steps[i - 1], "wait_for_job", "True")
                    /\ IsCall(steps[i - 2], "wait_for_job")
                    /\ steps[i - 2][3] = steps[i][3]
                    /\ steps[i - 3][1] = "ret" /\ steps[i - 3][2] \in DispatchMethods
                    /\ steps[i - 3][3] = steps[i][3]
           /\ \A i \in 1..Len(steps) :
                 IsRet(steps[i], "wait_for_job", "False") =>
                    /\ \A k \in (i + 1)..Len(steps) : steps[k][1] # "call"
                    /\ IsCall(steps[i - 1], "wait_for_job")
                    /\ \E k \in (i + 1)..Len(steps) :
                          /\ steps[k][1] = "say"
                          /\ Len(steps[k]) = 3
                          /\ steps[k][3] = steps[i - 1][3]

\* C22 witness: a saved search whose job does not finish in time
C22_Witness ==
    /\ inv.op = "!search-alert"
    /\ \E i \in 1..Len(inv.steps) : IsRet(inv.steps[i], "wait_for_job", "False")
    /\ \A i \in 1..Len(inv.steps) : ~IsCall(inv.steps[i], "get_results")
    /\ inv.steps[Len(inv.steps)] =
          <<"say", "started, but job did not finish in time", "abc123">>

\* C23: every invocation of a command handler sends exactly one message
\* through say, on every path.
C23_ExactlyOneMessage ==
    inv.op # "init" => Len(Says(inv.steps)) = 1

\* C24: for every text a handler is given, the invocation sends at least one
\* message through say and no exception leaves the handler.
C24_NeverSilent ==
    inv.op # "init" =>
       /\ Len(Says(inv.steps)) >= 1
       /\ \A i \in 1..Len(inv.steps) : inv.steps[i][1] # "unhandled"

\* the messages a handler sends for an exception it caught
ErrorMessages ==
    {"Error running saved search", "Error running SPL query",
     "Error listing saved searches", "Error getting search info", "Cannot reach Splunk"}

\* C25: an error raised by a call to the backend inside a handler is caught
\* by the handler, which sends an error message next and returns normally.
C25_BackendErrorsCaught ==
    \A i \in 1..Len(inv.steps) :
       IsRaised(inv.steps[i]) =>
          /\ i < Len(inv.steps)
          /\ inv.steps[i + 1][1] = "say"
          /\ inv.steps[i + 1][2] \in ErrorMessages
          /\ \A k \in 1..Len(inv.steps) : inv.steps[k][1] # "unhandled"

\* C25 witness: the fetch of the results of a saved search fails
C25_Witness ==
    /\ inv.op = "!search-alert"
    /\ \E i \in 1..Len(inv.steps) : inv.steps[i] = <<"raised", "get_results">>
    /\ inv.steps[Len(inv.steps)] = <<"say", "Error running saved search">>

\* C26: an invocation dispatches at most one job, and after a call to the
\* backend has failed it makes no further call to the backend.
C26_NoRetry ==
    /\ Len(SelectSeq(Calls(inv.steps), LAMBDA x : x[2] \in DispatchMethods)) <= 1
    /\ \A i \in 1..Len(inv.steps) :
          IsRaised(inv.steps[i]) =>
             \A k \in (i + 1)..Len(inv.steps) : inv.steps[k][1] # "call"

\* C26 witness: the dispatch of a saved search fails
C26_Witness ==
    /\ inv.op = "!search-alert"
    /\ Len(Calls(inv.steps)) = 1
    /\ \E i \in 1..Len(inv.steps) : inv.steps[i] = <<"raised", "dispatch_saved_search">>

(***************************************************************************)
(* SpecFormat: format_results of slack_handlers.py on its own.  A row is a *)
(* dict: its <<key, value>> pairs in the row's own order, keys distinct.   *)
(* The text returned is the sequence of its lines.                         *)
(***************************************************************************)
MaxRowKeys == 5
MaxRows == 3

\* keys_priority
keys_priority == <<"_time", "host", "source", "sourcetype", "user", "src", "dest", "count">>

\* the field names of the rows: some of the priority list, some not
RowKeys == {"count", "dest", "user", "host", "_time", "a", "b"}

\* the rows: up to MaxRowKeys fields, in any order
KeyLists ==
    {ks \in UNION {[1..n -> RowKeys] : n \in 0..MaxRowKeys} :
        \A i, j \in 1..Len(ks) : i # j => ks[i] # ks[j]}
RowOf(ks) == [i \in 1..Len(ks) |-> <<ks[i], "v">>]
Rows == {RowOf(ks) : ks \in KeyLists}

\* the result lists: one row of any kind, or up to MaxRows rows of a few kinds
FewRows == {RowOf(<<>>), RowOf(<<"a", "host">>), RowOf(<<"e", "d", "c", "b", "a">>)}
ResultLists == {<<r>> : r \in Rows} \cup UNION {[1..n -> FewRows] : n \in 0..MaxRows}

\* list(row.keys()), k in row, row.get(k)
row_keys(row) == [i \in 1..Len(row) |-> row[i][1]]
row_has(row, k) == \E i \in 1..Len(row) : row[i][1] = k
row_get(row, k) == row[CHOOSE i \in 1..Len(row) : row[i][1] = k][2]

\* show_keys that keeps the row's order of the priority fields
show_keys_in_row_order(row) ==
    LET present == SelectSeq(row_keys(row), LAMBDA k : In(k, keys_priority))
    IN  IF present = <<>> THEN Take(row_keys(row), 4) ELSE Take(present, 4)

\* show_keys: [k for k in keys_priority if k in row][:4], or list(row.keys())[:4]
show_keys(row) ==
    LET present == SelectSeq(keys_priority, LAMBDA k : row_has(row, k))
    IN  IF present = <<>> THEN Take(row_keys(row), 4) ELSE Take(present, 4)

\* the numbered line of row i
row_line(i, row) ==
    [kind |-> "row", number |-> i,
     snippet |-> [j \in 1..Len(show_keys(row)) |->
                     <<show_keys(row)[j], row_get(row, show_keys(row)[j])>>]]

\* format_results that leaves out the rows without fields
format_results_skipping_empty(saved_search_name, sid, results) ==
    LET kept == SelectSeq(results, LAMBDA row : row # <<>>)
    IN  <<[kind |-> "results", name |-> saved_search_name, top |-> Len(results)],
          [kind |-> "sid", sid |-> sid],
          [kind |-> "blank"]>>
        \o [i \in 1..Len(kept) |-> row_line(i, kept[i])]

\* format_results(saved_search_name, sid, results)
format_results(saved_search_name, sid, results) ==
    IF results = <<>>
    THEN <<[kind |-> "ran successfully", name |-> saved_search_name],
           [kind |-> "sid", sid |-> sid],
           [kind |-> "no results"]>>
    ELSE <<[kind |-> "results", name |-> saved_search_name, top |-> Len(results)],
           [kind |-> "sid", sid |-> sid],
           [kind |-> "blank"]>>
         \o [i \in 1..Len(results) |-> row_line(i, results[i])]

SearchNames == {"failed_logins", "n"}

FormatInit == WaitInit

\* format_results is a function of its arguments: one call in a run
Call_format_results ==
    /\ inv.op = "init"
    /\ ClientFrame
    /\ \E name \in SearchNames, sid \in Sids, results \in ResultLists :
          inv' = [NoInv EXCEPT !.op = "format_results", !.prev = inv.op,
                               !.target = [saved_search_name |-> name, sid |-> sid,
                                           results |-> results],
                               !.ret = format_results(name, sid, results)]

FormatNext == Call_format_results

SpecFormat == FormatInit /\ [][FormatNext]_vars

\* the lines of a text that are numbered rows
RowLines(text) == SelectSeq(text, LAMBDA line : line.kind = "row")
ShownKeys(line) == [j \in 1..Len(line.snippet) |-> line.snippet[j][1]]
PriorityIndex(k) == CHOOSE i \in 1..Len(keys_priority) : keys_priority[i] = k
PriorityKeys == ToSet(keys_priority)

\* C27: for every non-empty row the numbered line shows at most 4 fields: the
\* row's fields of the priority list, in the order of that list, cut to the
\* first 4; the row's own first 4 fields only when it has no priority field.
C27_ShownFields ==
    inv.op = "format_results" =>
       \A i \in 1..Len(inv.target.results) :
          LET row == inv.target.results[i]
              shown == ShownKeys(RowLines(inv.ret)[i])
              present == ToSet(row_keys(row)) \cap PriorityKeys
          IN  row # <<>> =>
                 /\ Len(shown) <= 4
                 /\ \A j \in 1..Len(shown) :
                       RowLines(inv.ret)[i].snippet[j][2] = row_get(row, shown[j])
                 /\ IF present # {}
                    THEN /\ Len(shown) = Min(4, Cardinality(present))
                         /\ ToSet(shown) \subseteq present
                         /\ \A j \in 1..(Len(shown) - 1) :
                               PriorityIndex(shown[j]) < PriorityIndex(shown[j + 1])
                         /\ \A k \in present \ ToSet(shown) :
                               \A j \in 1..Len(shown) :
                                  PriorityIndex(shown[j]) < PriorityIndex(k)
                    ELSE shown = Take(row_keys(row), 4)

\* C27 witness: a row with five priority fields, not in the list's order
C27_Witness ==
    /\ inv.op = "format_results"
    /\ Len(inv.target.results) = 1
    /\ row_keys(inv.target.results[1]) = <<"count", "dest", "user", "host", "_time">>
    /\ ShownKeys(RowLines(inv.ret)[1]) = <<"_time", "host", "user", "dest">>

\* C28: for no rows format_results returns the no-results text with the
\* search name and the sid; otherwise a text with the search name, the sid and
\* exactly one numbered line per row, numbered 1..len(rows) in the rows' order.
C28_OneLinePerRow ==
    inv.op = "format_results" =>
       LET results == inv.target.results
           text == inv.ret
       IN  /\ \E i \in 1..Len(text) :
                 "name" \in DOMAIN text[i] /\ text[i].name = inv.target.saved_search_name
           /\ \E i \in 1..Len(text) :
                 text[i].kind = "sid" /\ text[i].sid = inv.target.sid
           /\ IF results = <<>>
              THEN /\ \E i \in 1..Len(text) : text[i].kind = "no results"
                   /\ RowLines(text) = <<>>
              ELSE /\ Len(RowLines(text)) = Len(results)
                   /\ \A i \in 1..Len(results) :
                         /\ RowLines(text)[i].number = i
                         /\ ShownKeys(RowLines(text)[i]) = show_keys(results[i])
                   /\ \A i \in 1..Len(text) : text[i].kind # "no results"

\* C28 witness: three rows, one of them without fields
C28_Witness ==
    /\ inv.op = "format_results"
    /\ Len(inv.target.results) = MaxRows
    /\ \E i \in 1..MaxRows : inv.target.results[i] = <<>>
    /\ Len(RowLines(inv.ret)) = MaxRows

(***************************************************************************)
(* Claims about !feature-toggle and !admin-remove (Spec).                  *)
(***************************************************************************)
\* what the .env file says about the keys other than key
OtherKeysOf(file, key) == [k \in EnvKeys \ {key} |-> dotenv_get(file, k)]

\* C29: a !feature-toggle by an admin with an unknown feature name answers
\* with an error and changes nothing: not the flags, the roster, the channel
\* list, the environment or the .env file.  With a known name only that flag
\* changes: the roster, the channel list and the other flag stay as they
\* were, in memory and in the .env file.
C29_ToggleChangesOnlyItsFlag ==
    [][(/\ inv'.op = "!feature-toggle"
        /\ is_admin(admin_user_ids, inv'.user)
        /\ inv'.target # <<>>)
       => LET feature == lower(inv'.target)
          IN  IF feature \in {<<"spl_query">>, <<"spl">>}
              THEN /\ UNCHANGED <<admin_user_ids, admin_channel_ids, approval_required>>
                   /\ OtherKeysOf(env_file', K_SPL) = OtherKeysOf(env_file, K_SPL)
              ELSE IF feature \in {<<"approval">>, <<"require_approval">>}
              THEN /\ UNCHANGED <<admin_user_ids, admin_channel_ids, spl_query_enabled>>
                   /\ OtherKeysOf(env_file', K_APPROVAL) = OtherKeysOf(env_file, K_APPROVAL)
              ELSE /\ Says(inv'.steps) = <<<<"say", "Unknown feature">>>>
                   /\ UNCHANGED <<admin_user_ids, admin_channel_ids, spl_query_enabled,
                                  approval_required, environ, env_file>>]_vars

\* C30: an !admin-remove by an admin whose target is the caller, while the
\* caller is the only member of the roster, is refused: the roster and the
\* .env file are unchanged and the caller is still an admin.
C30_LastAdminKept ==
    [][(/\ inv'.op = "!admin-remove"
        /\ inv'.target = inv'.user
        /\ is_admin(admin_user_ids, inv'.user)
        /\ Cardinality(ToSet(admin_user_ids)) = 1)
       => /\ Says(inv'.steps) = <<<<"say", "Cannot remove yourself as the last admin">>>>
          /\ admin_user_ids' = admin_user_ids
          /\ env_file' = env_file
          /\ is_admin(admin_user_ids', inv'.user)]_vars

(***************************************************************************)
(* SpecChannel: the channel allowlist and raw queries sent from a channel  *)
(* on the allowlist (C1) and from one that is not (D1).                    *)
(***************************************************************************)
ChannelNext ==
    \/ HandleOne /\ NoExport /\ handle_admin_channel_add
    \/ HandleOne /\ NoExport /\ handle_admin_channel_remove
    \/ HandleOne /\ NoExport /\ handle_feature_toggle
    \/ HandleOne /\ NoExport /\ splunk_query_from(QueryChannels)

SpecChannel == Init /\ [][ChannelNext]_vars

C33_OnlyKeyChanges ==
    [][(inv'.op = "update_env_file" /\ inv'.write = "ok") =>
          /\ dotenv_get(env_file', inv'.target) = inv'.before
          /\ OtherKeysOf(env_file', inv'.target) = OtherKeysOf(env_file, inv'.target)
      ]_vars

(***************************************************************************)
(* SpecAudit: handle_audit_logs on trails of up to MaxTrail entries.  The  *)
(* command's text is its words; a word is a sequence of characters.        *)
(***************************************************************************)
MaxTrail == 57

\* count = 10  # default
DefaultCount == 10
\* count = min(count, 50)
AuditCap == 50

DigitChars == <<"0", "1", "2", "3", "4", "5", "6", "7", "8", "9">>
IsDigit(c) == \E d \in 1..10 : DigitChars[d] = c
DigitValue(c) == (CHOOSE d \in 1..10 : DigitChars[d] = c) - 1

\* the digits of a word after its sign, if it has one
unsigned(word) ==
    IF word # <<>> /\ word[1] \in {"-", "+"} THEN Tail(word) ELSE word

\* int(word) does not raise ValueError: an optional sign, then digits
is_int_word(word) ==
    unsigned(word) # <<>> /\ \A i \in 1..Len(unsigned(word)) : IsDigit(unsigned(word)[i])

RECURSIVE digits_value(_)
digits_value(ds) ==
    IF ds = <<>> THEN 0
    ELSE 10 * digits_value(SubSeq(ds, 1, Len(ds) - 1)) + DigitValue(ds[Len(ds)])

\* int(word)
int_of_word(word) ==
    IF word[1] = "-" THEN 0 - digits_value(unsigned(word)) ELSE digits_value(unsigned(word))

\* the count handle_audit_logs asks for: the default, or the second word
\* when it is an integer, capped
audit_count(args) ==
    IF Len(args) > 1 /\ is_int_word(args[2])
    THEN Min(int_of_word(args[2]), AuditCap)
    ELSE DefaultCount

\* the second words the command is sent with
CountWords ==
    {<<"a", "l", "l">>, <<"0">>, <<"-", "3">>, <<"5">>, <<"5", "0">>, <<"5", "1">>,
     <<"1", "0", "0">>}
AuditTexts == {<<"!audit-logs">>} \cup {<<"!audit-logs", w>> : w \in CountWords}

\* a trail of n entries, the i-th made at time i
TrailOf(n) ==
    [i \in 1..n |-> log_entry(i, U1, "!admin-list", C1id, "Listed admins", "SUCCESS",
                              NoChanges, NoError)]

AuditInit ==
    /\ StartInit([k \in EnvKeys |-> IF k = K_ADMINS THEN U1 ELSE Unset], NoFile)
    /\ \E n \in 0..MaxTrail :
          /\ logs = TrailOf(n)
          /\ log_file = [i \in 1..n |-> json_line(TrailOf(n)[i])]
    /\ handled = 0
    /\ export_files = NoExports
    /\ wait = NoWait
    /\ setup_states = {}
    /\ threads = NoThreads
    /\ inv = NoInv

\* what handle_audit_logs says: the entries it lists, and the totals it names
AuditMessage(text, entries, count, total) ==
    [text |-> text, entries |-> entries, count |-> count, total |-> total]

\* handle_audit_logs
handle_audit_logs ==
    \E user \in Users, args \in AuditTexts :
       LET count == audit_count(args)
           recent_logs == get_recent_logs(logs, count)
           shown == PySliceFrom(recent_logs, 0 - count)
       IN  /\ inv' = Invocation("!audit-logs", user, C1id, args,
                        IF ~is_admin(admin_user_ids, user)
                        THEN <<<<"auth", FALSE>>,
                               <<"say", AuditMessage("Only admins can view audit logs",
                                                     <<>>, 0, 0)>>>>
                        ELSE IF recent_logs = <<>>
                        THEN <<<<"auth", TRUE>>,
                               <<"say", AuditMessage("No log entries yet", <<>>, 0, 0)>>>>
                        ELSE <<<<"auth", TRUE>>,
                               <<"say", AuditMessage("Recent Audit Logs", shown,
                                                     Len(recent_logs), Len(logs))>>>>,
                        "")
           /\ HandleOne
           /\ NoExport
           /\ PolicyUnchanged
           /\ TrailUnchanged

AuditNext == handle_audit_logs

SpecAudit == AuditInit /\ [][AuditNext]_vars

(***************************************************************************)
(* Claims about !audit-logs (checked under SpecAudit).                     *)
(***************************************************************************)
\* C34: the reply to an admin's !audit-logs lists at most 50 entries whatever
\* count is given (zero and negative counts too), and the 10 most recent
\* entries when no count or a count that is not a number is given.
C34_AtMostFifty ==
    (inv.op = "!audit-logs" /\ inv.steps[1] = <<"auth", TRUE>>) =>
        /\ Len(inv.steps[2][2].entries) <= AuditCap
        /\ (Len(inv.target) = 1 \/ ~is_int_word(inv.target[2])) =>
              inv.steps[2][2].entries = LastN(logs, DefaultCount)

(***************************************************************************)
(* SpecSetup: the commands that change the configuration and the setup     *)
(* wizard, one command at a time, at most MaxCommands commands in a run.   *)
(***************************************************************************)
SetupNext ==
    \/ HandleOne /\ NoExport /\ handle_admin_add
    \/ HandleOne /\ NoExport /\ handle_admin_remove
    \/ HandleOne /\ NoExport /\ handle_admin_channel_add
    \/ HandleOne /\ NoExport /\ handle_admin_channel_remove
    \/ HandleOne /\ NoExport /\ handle_feature_toggle
    \/ HandleOne /\ NoExport /\ handle_config_set
    \/ CommandOne /\ NoExport /\ handle_setup
    \/ CommandOne /\ NoExport /\ handle_setup_next
    \/ CommandOne /\ NoExport /\ handle_setup_cancel
    \/ CommandOne /\ NoExport /\ handle_setup_finish

SpecSetup == Init /\ [][SetupNext]_vars

(***************************************************************************)
(* Claims about the wizard and the configuration (checked under SpecSetup).*)
(***************************************************************************)
\* C35: when !setup-cancel answers that the configuration is unchanged, the
\* roster, the allowlist, the two flags and the .env file are what they were
\* when that user's !setup arrived, whatever was sent in between.
C35_CancelRestores ==
    [][\A user \in Users :
          (/\ inv'.op = "!setup-cancel"
           /\ inv'.user = user
           /\ in_setup(setup_states, user))
          => Configuration' = setup_state(setup_states, user).began
      ]_vars

C37_NonAdminChangesNothing ==
    [][~In(inv'.user, admin_user_ids) =>
          IF admin_user_ids # <<>>
          THEN Configuration' = Configuration
          ELSE /\ Configuration' # Configuration =>
                     inv'.op \in {"!setup", "!admin-add"}
               /\ admin_user_ids' # admin_user_ids =>
                     admin_user_ids' = IF inv'.op = "!setup" THEN <<inv'.user>>
                                       ELSE <<inv'.target>>
      ]_vars

\* C37 witness: with a non-empty roster, a user who is not on it has sent
\* !config-set and was refused
C37_Witness ==
    /\ inv.op = "!config-set"
    /\ inv.pre.admin_user_ids # <<>>
    /\ ~is_admin(inv.pre.admin_user_ids, inv.user)
    /\ inv.steps[1] = <<"auth", FALSE>>

\* with an empty roster, !admin-add has put the named user on the roster
C37_BootstrapReached ==
    /\ inv.op = "!admin-add"
    /\ inv.pre.admin_user_ids = <<>>
    /\ admin_user_ids = <<inv.target>>

(***************************************************************************)
(* SpecWizard: the four wizard commands on their own, at most              *)
(* MaxWizardCommands of them in a run.                                     *)
(***************************************************************************)
MaxWizardCommands == 7

\* the bot is started without admins, with the admin U1, or with U1 and U2
WizardProcEnvs ==
    {[k \in EnvKeys |-> IF k = K_ADMINS THEN ids ELSE Unset] :
        ids \in {Unset, U1, join(<<U1, U2>>, ",")}}

WizardInit ==
    /\ \E procenv \in WizardProcEnvs : StartInit(procenv, NoFile)
    /\ logs = <<>>
    /\ log_file = <<>>
    /\ handled = 0
    /\ export_files = NoExports
    /\ wait = NoWait
    /\ setup_states = {}
    /\ threads = NoThreads
    /\ inv = NoInv

WizardOne == handled < MaxWizardCommands /\ handled' = handled + 1 /\ UNCHANGED <<wait, threads>>

WizardNext ==
    \/ WizardOne /\ NoExport /\ handle_setup
    \/ WizardOne /\ NoExport /\ handle_setup_next
    \/ WizardOne /\ NoExport /\ handle_setup_cancel
    \/ WizardOne /\ NoExport /\ handle_setup_finish

SpecWizard == WizardInit /\ [][WizardNext]_vars

(***************************************************************************)
(* Claims about the wizard's state (checked under SpecWizard).             *)
(***************************************************************************)
WizardOrder == <<"start", "channels", "features", "limits", "complete">>
OrderIndex(step) == CHOOSE i \in 1..Len(WizardOrder) : WizardOrder[i] = step

\* the step of a user's wizard, or "none"
StepOf(states, user) ==
    IF in_setup(states, user) THEN setup_state(states, user).step ELSE "none"

\* the !setup that has just been handled was accepted
SetupAccepted(i) == i.op = "!setup" /\ i.steps[1] = <<"auth", TRUE>>

\* C38: a user's wizard state comes into being only by an accepted !setup of
\* that user and is gone after that user's !setup-cancel or !setup-finish;
\* each !setup-next of the user moves it one step along start, channels,
\* features, limits, complete and leaves it at complete; and a user's
\* wizard state is changed by that user's wizard commands only.
C38_WizardSteps ==
    [][\A user \in Users :
          LET before == StepOf(setup_states, user)
              after == StepOf(setup_states', user)
          IN  /\ (before = "none" /\ after # "none") =>
                    inv'.user = user /\ SetupAccepted(inv') /\ after = "start"
              /\ (inv'.user = user /\ inv'.op \in {"!setup-cancel", "!setup-finish"}) =>
                    after = "none"
              /\ (before # "none" /\ after = "none") =>
                    inv'.user = user /\ inv'.op \in {"!setup-cancel", "!setup-finish"}
              /\ (inv'.user = user /\ inv'.op = "!setup-next" /\ before # "none") =>
                    after = WizardOrder[Min(OrderIndex(before) + 1, Len(WizardOrder))]
              /\ inv'.user # user => after = before
      ]_vars

\* C38 witness: a !setup-next of a user whose wizard is at complete has left
\* it there, while the other user's wizard is open
C38_Witness ==
    /\ inv.op = "!setup-next"
    /\ inv.prev = "!setup-next"
    /\ StepOf(setup_states, inv.user) = "complete"
    /\ inv.steps[2] = <<"say", "Setup already complete">>
    /\ \E other \in Users \ {inv.user} : StepOf(setup_states, other) = "start"

(***************************************************************************)
(* SpecRace: two listener threads, each handling one !admin-add or         *)
(* !admin-remove, a statement at a time.  Both use the one admin_manager,  *)
(* the one os.environ and the one .env file.  threads[t].pc is "idle"      *)
(* before the command arrives, then "check", "edit", "read", "write",      *)
(* "reload" and "say" before the statement of that name, and "done" or     *)
(* "refused" at the end.  The writes of .env succeed.  threads[t].alone    *)
(* is not program state: it records that the other thread handled nothing  *)
(* while this one was handling its command.                                *)
(***************************************************************************)
RaceRosters == {<<U1>>, <<U1, U2>>}
RaceTargets == {U2, U3}
RaceOps == {"!admin-add", "!admin-remove"}

\* the bot is started from a .env that holds the roster
RaceInit ==
    /\ \E roster \in RaceRosters :
          StartInit([k \in EnvKeys |-> Unset],
                    [exists |-> TRUE, lines |-> <<env_line(K_ADMINS, join(roster, ","))>>])
    /\ logs = <<>>
    /\ log_file = <<>>
    /\ handled = 0
    /\ export_files = NoExports
    /\ wait = NoWait
    /\ setup_states = {}
    /\ threads = NoThreads
    /\ inv = NoInv

Other(t) == CHOOSE o \in Tids : o # t
Handling(th) == th.pc \notin {"idle", "done", "refused"}

RaceRest == UNCHANGED <<handled, export_files, wait, setup_states, inv>>

\* a command reaches a listener thread
T_receive ==
    \E t \in Tids, op \in RaceOps, user \in Users, target \in RaceTargets :
       /\ threads[t].pc = "idle"
       /\ threads' =
             [o \in Tids |->
                 IF o = t
                 THEN [threads[t] EXCEPT !.pc = "check", !.op = op, !.user = user,
                                         !.target = target,
                                         !.alone = ~Handling(threads[Other(t)])]
                 ELSE IF Handling(threads[o]) THEN [threads[o] EXCEPT !.alone = FALSE]
                 ELSE threads[o]]
       /\ PolicyUnchanged /\ TrailUnchanged /\ RaceRest

\* the permission check, and for !admin-remove the last-admin check
T_check ==
    \E t \in Tids :
       LET th == threads[t]
           allowed ==
              IF th.op = "!admin-add"
              THEN admin_user_ids = <<>> \/ is_admin(admin_user_ids, th.user)
              ELSE /\ is_admin(admin_user_ids, th.user)
                   /\ ~(th.target = th.user /\ Len(admin_user_ids) = 1)
       IN  /\ th.pc = "check"
           /\ threads' = [threads EXCEPT ![t].pc = IF allowed THEN "edit" ELSE "refused"]
           /\ PolicyUnchanged /\ TrailUnchanged /\ RaceRest

\* admin_manager.add_admin(new_admin_id) / admin_manager.remove_admin(remove_admin_id)
T_edit ==
    \E t \in Tids :
       /\ threads[t].pc = "edit"
       /\ admin_user_ids' = IF threads[t].op = "!admin-add"
                            THEN add_admin(admin_user_ids, threads[t].target)
                            ELSE remove_admin(admin_user_ids, threads[t].target)
       /\ threads' = [threads EXCEPT ![t].pc = "read"]
       /\ UNCHANGED <<environ, env_file, admin_channel_ids, spl_query_enabled,
                      approval_required>>
       /\ TrailUnchanged /\ RaceRest

\* current_admins = admin_manager.get_admin_list(); ",".join(current_admins)
T_read ==
    \E t \in Tids :
       /\ threads[t].pc = "read"
       /\ threads' = [threads EXCEPT ![t].pc = "write",
                                     ![t].value = join(admin_user_ids, ",")]
       /\ PolicyUnchanged /\ TrailUnchanged /\ RaceRest

\* update_env_file("ADMIN_USER_IDS", value)
T_write ==
    \E t \in Tids :
       LET r == update_env_file(environ, env_file, K_ADMINS, threads[t].value, "ok")
       IN  /\ threads[t].pc = "write"
           /\ environ' = r.env
           /\ env_file' = r.file
           /\ threads' = [threads EXCEPT ![t].pc = "reload"]
           /\ UNCHANGED <<admin_user_ids, admin_channel_ids, spl_query_enabled,
                          approval_required>>
           /\ TrailUnchanged /\ RaceRest

\* reload_admin_manager()
T_reload ==
    \E t \in Tids :
       /\ threads[t].pc = "reload"
       /\ Reloaded(environ)
       /\ threads' = [threads EXCEPT ![t].pc = "say"]
       /\ UNCHANGED <<environ, env_file>>
       /\ TrailUnchanged /\ RaceRest

\* say(...), and for !admin-add the entry in the audit trail
T_say ==
    \E t \in Tids :
       LET th == threads[t]
       IN  /\ th.pc = "say"
           /\ threads' = [threads EXCEPT ![t].pc = "done",
                                         ![t].said = IF th.op = "!admin-add"
                                                     THEN "Added as admin"
                                                     ELSE "Removed from admins"]
           /\ IF th.op = "!admin-add"
              THEN log_action(log_entry(Len(logs), th.user, "!admin-add", C1id,
                                        "Added new admin user", "SUCCESS",
                                        [new_admin |-> th.target,
                                         total_admins |-> Len(admin_user_ids)],
                                        NoError), "ok")
              ELSE TrailUnchanged
           /\ PolicyUnchanged /\ RaceRest

RaceNext ==
    \/ T_receive
    \/ T_check
    \/ T_edit
    \/ T_read
    \/ T_write
    \/ T_reload
    \/ T_say

SpecRace == RaceInit /\ [][RaceNext]_vars

(***************************************************************************)
(* Claims about concurrent roster edits (checked under SpecRace).          *)
(***************************************************************************)
\* thread t has acknowledged its edit, the other thread has not acknowledged
\* the opposite edit of the same user, and the edit is neither in the roster
\* nor in .env
LostEdit(t) ==
    LET th == threads[t]
        o == threads[Other(t)]
    IN  /\ th.pc = "done"
        /\ ~(o.pc = "done" /\ o.target = th.target /\ o.op # th.op)
        /\ IF th.op = "!admin-add"
           THEN ~In(th.target, admin_user_ids) /\ ~In(th.target, FileRoster)
           ELSE In(th.target, admin_user_ids) /\ In(th.target, FileRoster)

Finished == \A t \in Tids : threads[t].pc \in {"done", "refused"}

\* C32: roster edits are not serialized: only when the two handlers ran at
\* the same time can an acknowledged edit be missing from the roster and
\* from .env once both have finished, and there is such a run (the witness).
C32_LostOnlyWhenConcurrent ==
    (Finished /\ \E t \in Tids : LostEdit(t)) =>
        \A t \in Tids : ~threads[t].alone

\* C32 witness: two !admin-add for different users have both answered
\* "Added as admin", and one of the two users is neither on the roster nor
\* in .env
C32_Witness ==
    /\ \A t \in Tids : threads[t].pc = "done" /\ threads[t].said = "Added as admin"
    /\ threads["t1"].target # threads["t2"].target
    /\ \E t \in Tids : LostEdit(t)

\* an !admin-add and an !admin-remove have both been acknowledged and one of
\* the two edits is lost
C32_AddRemoveLost ==
    /\ \A t \in Tids : threads[t].pc = "done"
    /\ threads["t1"].op # threads["t2"].op
    /\ \E t \in Tids : LostEdit(t)
====
